---------------------------- MODULE Spec2Model ----------------------------
(***************************************************************************)
(* st-solguard: the bounded LLM tool-use loops (investigator, validator),  *)
(* the pipeline's per-repo validation step and the cross-run memory.       *)
(*                                                                         *)
(* The LLM and the transport are the environment: every converse call is   *)
(* answered by a response, or by a transport failure, drawn from a small   *)
(* set.  Money is counted in units of 1e-8 USD so that the per-million     *)
(* token rates of estimate_cost_usd stay integers.                         *)
(***************************************************************************)
EXTENDS Integers, Sequences, FiniteSets, TLC

(***************************************************************************)
(* Bounds of the model.                                                    *)
(***************************************************************************)
\* config.max_turns is drawn from 0..MaxTurnsCfg and ValidatorTurnCap + 1.
MaxTurnsCfg == 3
\* The first BranchDepth turns draw the response from the full response
\* set, later turns from the narrow one (LateResponses).
BranchDepth == 2

(***************************************************************************)
(* Program constants.                                                      *)
(***************************************************************************)
\* validator.rs: config.max_turns.min(15)
ValidatorTurnCap == 15
\* agent_review.rs: if count >= 3 { stuck = true; ... }
StuckThreshold == 3

None == "None"

(***************************************************************************)
(* serde_json::Value, as far as tool inputs need it: an object with an     *)
(* optional "path" member, a string, or null.                              *)
(***************************************************************************)
JsonObject(path) == [kind |-> "object", path |-> path]
JsonString(s) == [kind |-> "string", str |-> s]
JsonNull == [kind |-> "null"]

ObjRoot == JsonObject(".")
ObjLib == JsonObject("src/lib.rs")
StrRoot == JsonString(".")

\* Value::is_object
IsObject(v) == v.kind = "object"

\* input["path"].as_str(): indexing a non-object yields Null, as_str of
\* which is None.
PathAsStr(v) == IF v.kind = "object" THEN v.path ELSE None

\* Value::to_string (the compact JSON text) of the values above.
ValueToString(v) ==
    CASE v = ObjRoot -> "{\"path\":\".\"}"
      [] v = ObjLib -> "{\"path\":\"src/lib.rs\"}"
      [] v = StrRoot -> "\".\""
      [] OTHER -> "null"

\* DefaultHasher over the text: a number per text; the texts of the model
\* are few and hash to different numbers.
HashOf(s) ==
    CASE s = "{\"path\":\".\"}" -> 7411
      [] s = "{\"path\":\"src/lib.rs\"}" -> 2903
      [] s = "\".\"" -> 5560
      [] OTHER -> 1289

(***************************************************************************)
(* Content blocks and messages (llm.rs).                                   *)
(***************************************************************************)
Text(t) == [type |-> "Text", text |-> t]
ToolUse(id, name, input) ==
    [type |-> "ToolUse", id |-> id, name |-> name, input |-> input]
ToolResult(id, content, is_error) ==
    [type |-> "ToolResult", tool_use_id |-> id, content |-> content,
     is_error |-> is_error]
Message(role, content) == [role |-> role, content |-> content]

\* messages.push(ConversationMessage { role, content })
\* The push, were it to put the message in front.
PushMessageFront(msgs, role, content) == <<Message(role, content)>> \o msgs

PushMessage(msgs, role, content) == Append(msgs, Message(role, content))

Usage(i, o) == [input_tokens |-> i, output_tokens |-> o]
Response(stop, content, usage) ==
    [stop_reason |-> stop, content |-> content, usage |-> usage]

\* estimate_cost_usd: per-million-token rates by model family, the result
\* in units of 1e-8 USD (rate * 100 per token).
EstimateCostUsd(usage, model) ==
    LET rates ==
          CASE model = "opus" -> <<1500, 7500>>
            [] model = "sonnet" -> <<300, 1500>>
            [] model = "haiku" -> <<25, 125>>
            [] model = "gpt-4o" -> <<250, 1000>>
            [] model = "gpt-4" -> <<1000, 3000>>
            [] model = ":free" -> <<0, 0>>
            [] OTHER -> <<100, 200>>
    IN usage.input_tokens * rates[1] + usage.output_tokens * rates[2]

(***************************************************************************)
(* The repository the tools read, and the tool handlers (agent_tools.rs),  *)
(* as far as the loops see them: which handler runs and what it returns.   *)
(***************************************************************************)
RepoDirs == {".", "src"}
RepoFiles == {"src/lib.rs"}

HandleListFiles(input) ==
    LET path == IF PathAsStr(input) = None THEN "." ELSE PathAsStr(input)
    IN IF path \notin RepoDirs \cup RepoFiles
         THEN [content |-> "Cannot resolve path", is_error |-> TRUE]
         ELSE IF path \notin RepoDirs
                THEN [content |-> "Not a directory", is_error |-> TRUE]
                ELSE [content |-> "src/ src/lib.rs", is_error |-> FALSE]

HandleReadFile(input) ==
    LET path == PathAsStr(input)
    IN IF path = None
         THEN [content |-> "Missing 'path' parameter", is_error |-> TRUE]
         ELSE IF path \notin RepoDirs \cup RepoFiles
                THEN [content |-> "Cannot resolve path", is_error |-> TRUE]
                ELSE IF path \notin RepoFiles
                       THEN [content |-> "Not a file", is_error |-> TRUE]
                       ELSE [content |-> "   1 | pub fn f() {}",
                             is_error |-> FALSE]

ToolNames == {"list_files", "read_file", "search_code", "get_file_structure"}

\* The handler dispatch() hands the input to, None for an unknown tool.
HandlerOf(tool_name) == IF tool_name \in ToolNames THEN tool_name ELSE None

\* agent_tools::dispatch: (result_text, is_error).
Dispatch(tool_name, input) ==
    CASE tool_name = "list_files" -> HandleListFiles(input)
      [] tool_name = "read_file" -> HandleReadFile(input)
      [] tool_name = "search_code" ->
           [content |-> "Missing 'pattern' parameter", is_error |-> TRUE]
      [] tool_name = "get_file_structure" ->
           IF PathAsStr(input) = None
             THEN [content |-> "Missing 'path' parameter", is_error |-> TRUE]
             ELSE [content |-> "No structural items found", is_error |-> FALSE]
      [] OTHER -> [content |-> "Unknown tool", is_error |-> TRUE]

(***************************************************************************)
(* Texts an assistant can answer with, and what try_parse_findings makes   *)
(* of each: None when no JSON array of findings can be parsed from it.     *)
(***************************************************************************)
Some(x) == [some |-> TRUE, val |-> x]
NoneOpt == [some |-> FALSE]

AgentFinding(title, severity) == [title |-> title, severity |-> severity]
FindingA == AgentFinding(<<"a">>, "High")

ProseText == "I found nothing noteworthy."
EmptyArrayText == "[]"
FindingsText == "Here are my findings: [{title:a,severity:High}]"

TryParseFindings(text) ==
    CASE text = EmptyArrayText -> Some(<<>>)
      [] text = FindingsText -> Some(<<FindingA>>)
      [] OTHER -> NoneOpt

\* The first Text block of `content`, from index i on, that parses.
RECURSIVE FirstParsedFindings(_, _)
FirstParsedFindings(content, i) ==
    IF i > Len(content)
      THEN NoneOpt
      ELSE IF content[i].type = "Text" /\ TryParseFindings(content[i].text).some
             THEN TryParseFindings(content[i].text)
             ELSE FirstParsedFindings(content, i + 1)

\* messages.iter().rev(): Assistant messages only, newest first; the first
\* successful parse is returned, an empty list when there is none.
RECURSIVE ExtractFindingsFrom(_, _)
ExtractFindingsFrom(msgs, i) ==
    IF i = 0
      THEN <<>>
      ELSE IF msgs[i].role = "Assistant"
                /\ FirstParsedFindings(msgs[i].content, 1).some
             THEN FirstParsedFindings(msgs[i].content, 1).val
             ELSE ExtractFindingsFrom(msgs, i - 1)

\* A variant that consults the most recent Assistant message only.
ExtractFindingsNewestOnly(msgs) ==
    LET assistants == {i \in 1..Len(msgs) : msgs[i].role = "Assistant"}
    IN  IF assistants = {}
          THEN <<>>
          ELSE LET m == CHOOSE i \in assistants : \A j \in assistants : j <= i
                   parsed == FirstParsedFindings(msgs[m].content, 1)
               IN  IF parsed.some THEN parsed.val ELSE <<>>

ExtractFindings(msgs) == ExtractFindingsFrom(msgs, Len(msgs))

(***************************************************************************)
(* Pieces of one turn of the investigator loop (agent_review.rs).          *)
(***************************************************************************)
\* The (id, name, input) triples of the ToolUse blocks, in order.
ToolUsesOf(content) == SelectSeq(content, LAMBDA b : b.type = "ToolUse")

\* The turn stop, were it to let the turn at the cap run.
HitMaxTurnsLate(t, max_turns) == t > max_turns

HitMaxTurns(t, max_turns) == t >= max_turns
HitCostLimit(cost, cost_limit_usd) == cost >= cost_limit_usd

CallKey(tu) == <<tu.name, HashOf(ValueToString(tu.input))>>

CountOf(calls, key) == Cardinality({i \in 1..Len(calls) : calls[i] = key})

\* The scan, were it to fire only beyond the threshold.
IsStuckCountStrict(count) == count > StuckThreshold

IsStuckCount(count) == count >= StuckThreshold

\* The stuck-loop scan: each tool use is pushed onto recent_calls and
\* counted; the scan breaks at the first pair seen StuckThreshold times.
RECURSIVE DetectStuck(_, _, _)
DetectStuck(calls, tool_uses, i) ==
    IF i > Len(tool_uses)
      THEN [stuck |-> FALSE, recent |-> calls]
      ELSE LET pushed == Append(calls, CallKey(tool_uses[i]))
           IN IF IsStuckCount(CountOf(pushed, CallKey(tool_uses[i])))
                THEN [stuck |-> TRUE, recent |-> pushed]
                ELSE DetectStuck(pushed, tool_uses, i + 1)

NudgeText == "You have called the same tool with the same arguments multiple times."
InvalidInputText == "Invalid tool input: expected a JSON object with named parameters"
InitialText == "Investigate the Solana program repository"
ForcedSummaryText == "You have run out of investigation turns."

\* The nudge, were it to answer the first tool use only.
NudgeResultsFirstOnly(tool_uses) ==
    <<ToolResult(tool_uses[1].id, NudgeText, FALSE)>>

NudgeResults(tool_uses) ==
    [i \in 1..Len(tool_uses) |-> ToolResult(tool_uses[i].id, NudgeText, FALSE)]

\* One tool use run through dispatch().
DispatchResult(tu) ==
    ToolResult(tu.id, Dispatch(tu.name, tu.input).content,
               Dispatch(tu.name, tu.input).is_error)

\* The investigator's guard: malformed input is answered without dispatch.
InputAccepted(input) == IsObject(input)

GuardedResult(tu) ==
    IF ~InputAccepted(tu.input)
      THEN ToolResult(tu.id, InvalidInputText, TRUE)
      ELSE DispatchResult(tu)

ExecuteToolsGuarded(tool_uses) ==
    [i \in 1..Len(tool_uses) |-> GuardedResult(tool_uses[i])]

\* The handler invocations of a turn: [handler, input] per tool use that
\* reached a handler.
HandlerCall(tu) == [handler |-> HandlerOf(tu.name), input |-> tu.input]

GuardedHandlerCalls(tool_uses) ==
    LET run == SelectSeq(tool_uses,
                 LAMBDA tu : InputAccepted(tu.input) /\ HandlerOf(tu.name) # None)
    IN [i \in 1..Len(run) |-> HandlerCall(run[i])]

(***************************************************************************)
(* The validator's pure parts (validator.rs).  Titles are sequences of     *)
(* characters so that lowercasing and substring search are computed.       *)
(***************************************************************************)
LowerChar(c) ==
    CASE c = "A" -> "a"
      [] c = "B" -> "b"
      [] c = "C" -> "c"
      [] OTHER -> c

\* str::to_lowercase
ToLowercase(s) == [i \in 1..Len(s) |-> LowerChar(s[i])]

\* str::contains: the empty needle is found in every text.
Contains(hay, needle) ==
    \E k \in 0..(Len(hay) - Len(needle)) :
        SubSeq(hay, k + 1, k + Len(needle)) = needle

\* The closure, were it to look for the verdict's title in the finding's
\* title only.
TitleMatchesOneWay(finding_title, verdict_title) ==
    Contains(ToLowercase(finding_title), ToLowercase(verdict_title))

\* The closure of verdicts.iter().find(..), lines 403-407.
TitleMatches(finding_title, verdict_title) ==
    LET vt == ToLowercase(verdict_title)
        ft == ToLowercase(finding_title)
    IN Contains(ft, vt) \/ Contains(vt, ft)

\* Index of the first matching verdict entry, 0 when there is none.
RECURSIVE FindVerdict(_, _, _)
FindVerdict(verdicts, title, i) ==
    IF i > Len(verdicts)
      THEN 0
      ELSE IF TitleMatches(title, verdicts[i].title)
             THEN i
             ELSE FindVerdict(verdicts, title, i + 1)

ParseVerdict(s) ==
    LET lower == ToLowercase(s)
    IN CASE lower = <<"c", "o", "n", "f", "i", "r", "m", "e", "d">> -> "Confirmed"
         [] lower = <<"d", "i", "s", "m", "i", "s", "s", "e", "d">> -> "Dismissed"
         [] OTHER -> "Disputed"

\* The downgrade, were it to drop High straight to Low.
DowngradeSeveritySkipping(severity) ==
    CASE severity = "Critical" -> "High"
      [] severity = "High" -> "Low"
      [] severity = "Medium" -> "Low"
      [] OTHER -> "Info"

DowngradeSeverity(severity) ==
    CASE severity = "Critical" -> "High"
      [] severity = "High" -> "Medium"
      [] severity = "Medium" -> "Low"
      [] OTHER -> "Info"

NoVerdictReasoning == "No verdict provided by validator"

SecurityFinding(title, severity, description) ==
    [title |-> title, severity |-> severity, description |-> description,
     validation_status |-> "Unvalidated", validation_reasoning |-> None]

VerdictEntry(title, verdict, reasoning) ==
    [title |-> title, verdict |-> verdict, reasoning |-> reasoning]

\* validate_findings lines 402-423: one finding annotated in place.
Annotate(f, verdicts) ==
    LET m == FindVerdict(verdicts, f.title, 1)
    IN IF m # 0
         THEN [f EXCEPT !.validation_status = ParseVerdict(verdicts[m].verdict),
                        !.validation_reasoning = verdicts[m].reasoning]
         ELSE [f EXCEPT !.validation_status = "Disputed",
                        !.validation_reasoning = NoVerdictReasoning]

Annotated(fs, verdicts) == [i \in 1..Len(fs) |-> Annotate(fs[i], verdicts)]

\* retain, were it to keep every finding.
RetainedAll(f) == TRUE

\* Line 426: findings.retain(..)
Retained(f) == f.validation_status # "Dismissed"
RetainFindings(fs) == SelectSeq(fs, Retained)

\* Lines 429-433.
DowngradeDisputed(fs) ==
    [i \in 1..Len(fs) |->
        IF fs[i].validation_status = "Disputed"
          THEN [fs[i] EXCEPT !.severity = DowngradeSeverity(fs[i].severity)]
          ELSE fs[i]]

\* Lines 401-433 as one: what validate_findings leaves in the caller's list.
PostProcess(fs, verdicts) ==
    DowngradeDisputed(RetainFindings(Annotated(fs, verdicts)))

\* validate lines 220-242: one ValidatedFinding per input finding.
Validated(fs, verdicts) ==
    [i \in 1..Len(fs) |->
        LET m == FindVerdict(verdicts, fs[i].title, 1)
        IN IF m # 0
             THEN [finding |-> fs[i],
                   verdict |-> ParseVerdict(verdicts[m].verdict),
                   reasoning |-> verdicts[m].reasoning]
             ELSE [finding |-> fs[i], verdict |-> "Disputed",
                   reasoning |-> NoVerdictReasoning]]

Chars(word) ==
    CASE word = "Confirmed" -> <<"C", "o", "n", "f", "i", "r", "m", "e", "d">>
      [] word = "dismissed" -> <<"d", "i", "s", "m", "i", "s", "s", "e", "d">>
      [] word = "DISMISSED" -> <<"D", "i", "s", "m", "i", "s", "s", "e", "d">>
      [] OTHER -> <<"o", "d", "d">>

\* Texts of the validator LLM and what try_parse_verdicts makes of them.
ConfirmAText == "[{title:a,verdict:Confirmed}]"
DismissUpperAText == "[{title:A,verdict:dismissed}]"
MixedText == "[{title:ab,verdict:DISMISSED},{title:a,verdict:Confirmed}]"
OddCText == "Verdicts: [{title:c,verdict:odd}]"

TryParseVerdicts(text) ==
    CASE text = EmptyArrayText -> Some(<<>>)
      [] text = ConfirmAText ->
           Some(<<VerdictEntry(<<"a">>, Chars("Confirmed"), "r1")>>)
      [] text = DismissUpperAText ->
           Some(<<VerdictEntry(<<"A">>, Chars("dismissed"), "r2")>>)
      [] text = MixedText ->
           Some(<<VerdictEntry(<<"a", "b">>, Chars("DISMISSED"), "r3"),
                  VerdictEntry(<<"a">>, Chars("Confirmed"), "r4")>>)
      [] text = OddCText ->
           Some(<<VerdictEntry(<<"c">>, Chars("odd"), "r5")>>)
      [] OTHER -> NoneOpt

RECURSIVE FirstParsedVerdicts(_, _)
FirstParsedVerdicts(content, i) ==
    IF i > Len(content)
      THEN NoneOpt
      ELSE IF content[i].type = "Text" /\ TryParseVerdicts(content[i].text).some
             THEN TryParseVerdicts(content[i].text)
             ELSE FirstParsedVerdicts(content, i + 1)

RECURSIVE ExtractVerdictsFrom(_, _)
ExtractVerdictsFrom(msgs, i) ==
    IF i = 0
      THEN <<>>
      ELSE IF msgs[i].role = "Assistant"
                /\ FirstParsedVerdicts(msgs[i].content, 1).some
             THEN FirstParsedVerdicts(msgs[i].content, 1).val
             ELSE ExtractVerdictsFrom(msgs, i - 1)

ExtractVerdicts(msgs) == ExtractVerdictsFrom(msgs, Len(msgs))

\* The validator loops hand every tool use to dispatch().
ExecuteTools(tool_uses) ==
    [i \in 1..Len(tool_uses) |-> DispatchResult(tool_uses[i])]

HandlerCalls(tool_uses) ==
    LET run == SelectSeq(tool_uses, LAMBDA tu : HandlerOf(tu.name) # None)
    IN [i \in 1..Len(run) |-> HandlerCall(run[i])]

Min(a, b) == IF a <= b THEN a ELSE b

\* let max_turns = config.max_turns.min(15);
ValidatorMaxTurns(cfg) == Min(cfg.max_turns, ValidatorTurnCap)

(***************************************************************************)
(* Run memory (memory.rs).  Repo names and error texts are sequences of    *)
(* characters, so that the error_memory key is the formatted text.         *)
(***************************************************************************)
\* Number of update_from_run calls a behaviour makes at most.
MaxRuns == 3
\* Number of RepoResults in one RunHistory at most.
MaxRepoResults == 1

\* memory.rs: if *count >= 3 && !self.repo_blocklist.contains(&repo.name)
BlocklistThreshold == 3

RepoNames == {<<"r">>, <<"s">>}
CloneFailed == <<"c">>
Timeout == <<"t">>
ErrorTexts == {CloneFailed, Timeout}
ErrorLists == {<<>>, <<CloneFailed>>, <<Timeout>>, <<CloneFailed, Timeout>>}

RepoResult(name, findings_count, errors) ==
    [name |-> name, findings_count |-> findings_count, errors |-> errors]

RepoResults == {RepoResult(n, 0, e) : n \in RepoNames, e \in ErrorLists}

RECURSIVE SeqsUpTo(_, _)
SeqsUpTo(S, n) ==
    IF n = 0
      THEN {<<>>}
      ELSE SeqsUpTo(S, n - 1)
             \cup {Append(q, x) : q \in SeqsUpTo(S, n - 1), x \in S}

\* RunHistory, as far as update_from_run reads it.
\* Two targets with the same tail ("a/r" and "b/r") and the same outcome:
\* two RepoResults with one name in one run.
SameTailPairs == {<<x, x>> : x \in RepoResults}

Histories ==
    {[repo_results |-> q] :
        q \in SeqsUpTo(RepoResults, MaxRepoResults) \cup SameTailPairs}

\* RunMemory::default()
DefaultRunMemory ==
    [total_runs |-> 0, repo_blocklist |-> <<>>, error_memory |-> <<>>]

\* The key, were it the error text alone.
FormatKeyErrorOnly(name, error) == error

\* format!("{}:{}", repo.name, error)
FormatKey(name, error) == name \o <<":">> \o error

\* The membership test, were it to find nothing.
BlocklistContainsNever(blocklist, name) == FALSE

\* self.repo_blocklist.contains(&repo.name)
BlocklistContains(blocklist, name) ==
    \E i \in 1..Len(blocklist) : blocklist[i] = name

\* The threshold test, were it to fire one record early.
ReachedThresholdEarly(count) == count >= BlocklistThreshold - 1

\* The threshold test, were it to fire only beyond the threshold.
ReachedThresholdStrict(count) == count > BlocklistThreshold

ReachedThreshold(count) == count >= BlocklistThreshold

\* The count behind a key, 0 for a key never inserted.
ErrorCount(error_memory, key) ==
    IF key \in DOMAIN error_memory THEN error_memory[key] ELSE 0

\* Lines 91-104: the errors of one RepoResult, from index i on.
RECURSIVE RecordErrors(_, _, _, _)
RecordErrors(mem, name, errors, i) ==
    IF i > Len(errors)
      THEN mem
      ELSE LET key == FormatKey(name, errors[i])
               count == ErrorCount(mem.error_memory, key) + 1
               counted ==
                 [k \in DOMAIN mem.error_memory \cup {key} |->
                    IF k = key THEN count ELSE mem.error_memory[k]]
               listed ==
                 IF ReachedThreshold(count)
                      /\ ~BlocklistContains(mem.repo_blocklist, name)
                   THEN Append(mem.repo_blocklist, name)
                   ELSE mem.repo_blocklist
           IN RecordErrors([mem EXCEPT !.error_memory = counted,
                                       !.repo_blocklist = listed],
                           name, errors, i + 1)

\* Lines 90-105: every RepoResult of the run, from index i on.
RECURSIVE RecordRepos(_, _, _)
RecordRepos(mem, results, i) ==
    IF i > Len(results)
      THEN mem
      ELSE RecordRepos(RecordErrors(mem, results[i].name, results[i].errors, 1),
                       results, i + 1)

\* RunMemory::update_from_run
UpdateFromRun(mem, history) ==
    RecordRepos([mem EXCEPT !.total_runs = mem.total_runs + 1],
                history.repo_results, 1)

(***************************************************************************)
(* run_full_pipeline (agent/mod.rs): target selection.  Targets are        *)
(* sequences of characters, so that the tail is computed by splitting.     *)
(***************************************************************************)
\* Number of narratives the detection returns at most.
MaxNarratives == 2

TargetAR == <<"a", "/", "r">>
TargetBR == <<"b", "/", "r">>
TargetAQ == <<"a", "/", "q">>
BareS == <<"s">>
BareQ == <<"q">>

\* Index of the last '/' of t at or before i, 0 when there is none.
RECURSIVE LastSlash(_, _)
LastSlash(t, i) ==
    IF i = 0 THEN 0 ELSE IF t[i] = "/" THEN i ELSE LastSlash(t, i - 1)

\* t.split('/').next_back()
TailOf(t) == SubSeq(t, LastSlash(t, Len(t)) + 1, Len(t))

\* target.contains('/')
ContainsSlash(t) == LastSlash(t, Len(t)) # 0

\* Byte values of the characters in use, for the order of sort().
CharCode(c) ==
    CASE c = "/" -> 47 [] c = "a" -> 97 [] c = "b" -> 98
      [] c = "q" -> 113 [] c = "r" -> 114 [] c = "s" -> 115
      [] c = "." -> 46 [] c = "H" -> 72 [] c = "c" -> 99 [] c = "d" -> 100
      [] c = "e" -> 101 [] c = "g" -> 103 [] c = "i" -> 105
      [] c = "k" -> 107 [] c = "l" -> 108 [] c = "n" -> 110
      [] c = "o" -> 111 [] c = "p" -> 112 [] c = "t" -> 116
      [] c = "w" -> 119 [] c = "x" -> 120

RECURSIVE LexLess(_, _, _)
LexLess(x, y, i) ==
    IF i > Len(x) \/ i > Len(y)
      THEN Len(x) < Len(y)
      ELSE IF x[i] = y[i]
             THEN LexLess(x, y, i + 1)
             ELSE CharCode(x[i]) < CharCode(y[i])

\* targets.sort(); targets.dedup(): the distinct entries in rising order.
RECURSIVE SortedDedup(_)
SortedDedup(S) ==
    IF S = {}
      THEN <<>>
      ELSE LET least == CHOOSE x \in S : \A y \in S : x = y \/ LexLess(x, y, 1)
           IN <<least>> \o SortedDedup(S \ {least})

\* narratives.iter().flat_map(|n| n.active_repos.iter().cloned())
RECURSIVE ActiveRepos(_, _)
ActiveRepos(ns, i) ==
    IF i > Len(ns) THEN {}
    ELSE {ns[i].active_repos[j] : j \in 1..Len(ns[i].active_repos)}
           \cup ActiveRepos(ns, i + 1)

\* Lines 65-80: the always_scan names with a local directory and no target
\* of that tail are pushed, in the order of the config.
RECURSIVE InjectKnownGood(_, _, _, _)
InjectKnownGood(ts, always_scan, local_dirs, i) ==
    IF i > Len(always_scan)
      THEN ts
      ELSE LET name == always_scan[i]
               add == /\ name \in local_dirs
                      /\ ~\E k \in 1..Len(ts) : TailOf(ts[k]) = name
           IN InjectKnownGood(IF add THEN Append(ts, name) ELSE ts,
                              always_scan, local_dirs, i + 1)

\* The retain predicate, were it to compare the whole target.
NotBlocklistedWhole(t, blocklist) ==
    ~\E k \in 1..Len(blocklist) : blocklist[k] = t

\* Lines 83-86: the retain predicate.
NotBlocklisted(t, blocklist) ==
    ~\E k \in 1..Len(blocklist) : blocklist[k] = TailOf(t)

FilterBlocklisted(ts, blocklist) ==
    SelectSeq(ts, LAMBDA t : NotBlocklisted(t, blocklist))

\* Lines 54-91 as one.
SelectTargets(ns, env, blocklist) ==
    FilterBlocklisted(
        InjectKnownGood(SortedDedup(ActiveRepos(ns, 1)),
                        env.always_scan, env.local_dirs, 1),
        blocklist)

(***************************************************************************)
(* What the environment can send.                                          *)
(***************************************************************************)
UsageSmall == Usage(1, 1)

EndProse == Response("EndTurn", <<Text(ProseText)>>, UsageSmall)
EndFindings == Response("EndTurn", <<Text(FindingsText)>>, UsageSmall)
EndEmpty == Response("EndTurn", <<Text(EmptyArrayText)>>, UsageSmall)
EndWithTool ==
    Response("EndTurn", <<ToolUse("t1", "list_files", ObjRoot)>>, UsageSmall)
MaxTokensProse == Response("MaxTokens", <<Text(ProseText)>>, UsageSmall)
UseList ==
    Response("ToolUse", <<ToolUse("t1", "list_files", ObjRoot)>>, UsageSmall)
UseReadWithFindings ==
    Response("ToolUse",
             <<Text(FindingsText), ToolUse("t1", "read_file", ObjLib)>>,
             UsageSmall)
UseMalformed ==
    Response("MaxTokens",
             <<ToolUse("t1", "list_files", StrRoot),
               ToolUse("t2", "bogus", ObjRoot)>>,
             UsageSmall)
UseListTwice ==
    Response("ToolUse",
             <<ToolUse("t1", "list_files", ObjRoot),
               ToolUse("t2", "list_files", ObjRoot)>>,
             UsageSmall)

InvResponses ==
    {EndProse, EndFindings, EndEmpty, EndWithTool, MaxTokensProse,
     UseList, UseReadWithFindings, UseMalformed, UseListTwice}
LateResponses == {EndProse, EndFindings, UseList}
SummaryResponses == {EndProse, EndFindings, UseList}

\* The responses turn number t + 1 is drawn from.
InvResponsesAt(t) == IF t < BranchDepth THEN InvResponses ELSE LateResponses

EndConfirmA == Response("EndTurn", <<Text(ConfirmAText)>>, UsageSmall)
EndDismissUpperA == Response("EndTurn", <<Text(DismissUpperAText)>>, UsageSmall)
EndMixed == Response("EndTurn", <<Text(ProseText), Text(MixedText)>>, UsageSmall)
EndOddC == Response("MaxTokens", <<Text(OddCText)>>, UsageSmall)
UseReadWithVerdicts ==
    Response("ToolUse",
             <<Text(ConfirmAText), ToolUse("t1", "read_file", ObjLib)>>,
             UsageSmall)

ValResponses ==
    {EndProse, EndEmpty, EndConfirmA, EndDismissUpperA, EndMixed, EndOddC,
     UseList, UseMalformed, UseReadWithVerdicts}
ValLateResponses == {EndProse, EndMixed, UseList}
ValSummaryResponses == {EndProse, EndDismissUpperA, EndConfirmA}

ValResponsesAt(t) == IF t < BranchDepth THEN ValResponses ELSE ValLateResponses

\* The findings handed to the validator.
\* SecurityFinding.severity is a String: the five levels and, from the
\* investigator LLM's JSON, any other text.
Severities == {"Critical", "High", "Medium", "Low", "Info", "Unknown"}
SecondFindings ==
    {SecurityFinding(<<"A", "b">>, "Info", "d2"),
     SecurityFinding(<<"c">>, "High", "d3")}
FindingLists ==
    {<<SecurityFinding(<<"a">>, sev, "d1")>> : sev \in Severities}
      \cup {<<SecurityFinding(<<"a">>, sev, "d1"), f>> :
                sev \in Severities, f \in SecondFindings}
AgentFindingLists ==
    {<<>>, <<FindingA>>, <<FindingA, AgentFinding(<<"A", "b">>, "Low")>>,
     <<FindingA, AgentFinding(<<"c">>, "High")>>}

\* AgentReviewConfig (max_turns, cost_limit_usd) and the client's model.
TurnCaps == (0..MaxTurnsCfg) \cup {ValidatorTurnCap + 1}
CostSetups ==
    {[cost_limit_usd |-> 0, model |-> "other"],
     [cost_limit_usd |-> 600, model |-> "other"],
     [cost_limit_usd |-> 600, model |-> ":free"]}
Configs ==
    {[max_turns |-> m, cost_limit_usd |-> c.cost_limit_usd, model |-> c.model] :
        m \in TurnCaps, c \in CostSetups}

(***************************************************************************)
(* State.  One call of investigate, validate or validate_findings runs per *)
(* behaviour; the loop variables are that call's locals.                   *)
(***************************************************************************)
VARIABLES
    fn,                  \* the function running, None before the call
    pc,                  \* "idle", "loop", "await", "await_summary", "done"
    config,              \* its AgentReviewConfig and the client's model
    messages,            \* Vec<ConversationMessage>
    turns,               \* stats.turns
    total_input_tokens,
    total_output_tokens,
    total_cost_usd,
    tool_calls,          \* stats.tool_calls
    recent_calls,        \* Vec<(String, u64)>
    result,              \* the call's return value, None while it runs
    converse_calls,      \* number of converse calls made so far
    loop_calls,          \* those made by the main loop
    failed_calls,        \* those that ended in a transport failure
    handler_calls,       \* handler invocations of the latest turn
    caller,              \* who called the validator: "pipeline" or "test"
    findings,            \* the caller's findings list
    findings_in,         \* that list as it was handed over
    all_findings,        \* run_full_pipeline: all_findings
    repo_results,        \* run_history.repo_results
    run_memory,          \* RunMemory
    fail_streak,         \* per repo: latest successive runs it failed in
    same_streak,         \* per repo and error: latest successive runs with it
    fail_runs,           \* per repo: runs it failed in
    fail_records,        \* per repo and error: error records folded in
    run_pc,              \* run_full_pipeline: where the run is
    run_env,             \* config targets, local dirs, clones on disk
    narratives,          \* run_full_pipeline: narratives
    targets,             \* run_full_pipeline: targets
    target_idx,          \* the for loop over targets: next index
    run_history,         \* RunHistory, its repo_results
    loaded_memory,       \* the RunMemory as load_or_default returned it
    attempted,           \* targets a clone or a scan was started for
    events               \* load, report, history, update, save in order

loopVars ==
    <<fn, pc, config, messages, turns, total_input_tokens,
      total_output_tokens, total_cost_usd, tool_calls, recent_calls, result,
      converse_calls, loop_calls, failed_calls, handler_calls>>

callerVars == <<caller, findings, findings_in, all_findings, repo_results>>

memVars == <<run_memory, fail_streak, same_streak, fail_runs, fail_records>>

pipeVars == <<run_pc, run_env, narratives, targets, target_idx, run_history,
              loaded_memory, attempted, events>>

\* The state of the components an action of another component leaves alone.
\* cross_ref::analyze: its position, its arguments (the narratives are
\* updated in place), the links built so far and the narrative index.
VARIABLES xr_pc, xr_narratives, xr_findings, xr_links, xr_ni

xrefVars == <<xr_pc, xr_narratives, xr_findings, xr_links, xr_ni>>

\* A call of a tool handler: whether it was made, the call, what it came
\* to, and the canonical paths it read from the file system.
VARIABLES tool_pc, tool_call, tool_out, tool_read

toolVars == <<tool_pc, tool_call, tool_out, tool_read>>

\* HttpClient::request_with_retry: its position, the loop's attempt and
\* delay, the sleeps and sends so far in order, and what it returned.
VARIABLES http_pc, http_attempt, http_delay, http_log, http_result

httpVars == <<http_pc, http_attempt, http_delay, http_log, http_result>>

\* scan_repo and regex_scan::scan: whether a call was made, its input and
\* the findings it returned.
VARIABLES scan_pc, scan_in, scan_out

scanVars == <<scan_pc, scan_in, scan_out>>

\* compute_budget: whether a call was made, its arguments and its result.
VARIABLES budget_pc, budget_in, budget_out

budgetVars == <<budget_pc, budget_in, budget_out>>

\* The deep run: its position, the repos directory, the narratives, the
\* targets, the index of the next target, all_findings, and the
\* ScanContexts built so far.
VARIABLES deep_pc, deep_dir, deep_narratives, deep_targets, deep_idx,
          deep_findings, deep_contexts

deepVars == <<deep_pc, deep_dir, deep_narratives, deep_targets, deep_idx,
              deep_findings, deep_contexts>>

\* A call of scan_repo_deep: whether it was made, the static findings and
\* the investigator's result it worked on, and what it returned.
VARIABLES scan_deep_pc, scan_deep_static, scan_deep_agent, scan_deep_out

scanDeepVars ==
    <<scan_deep_pc, scan_deep_static, scan_deep_agent, scan_deep_out>>

sideVars ==
    <<toolVars, httpVars, scanVars, budgetVars, deepVars, scanDeepVars>>

coreVars == <<loopVars, callerVars, memVars, pipeVars, xrefVars>>

\* What the steps of one part leave alone.
exceptTools ==
    <<coreVars, httpVars, scanVars, budgetVars, deepVars, scanDeepVars>>
exceptHttp ==
    <<coreVars, toolVars, scanVars, budgetVars, deepVars, scanDeepVars>>
exceptScan ==
    <<coreVars, toolVars, httpVars, budgetVars, deepVars, scanDeepVars>>
exceptBudget ==
    <<coreVars, toolVars, httpVars, scanVars, deepVars, scanDeepVars>>
exceptDeep == <<loopVars, callerVars, memVars, pipeVars, toolVars, httpVars,
                scanVars, budgetVars, scanDeepVars>>
exceptScanDeep ==
    <<coreVars, toolVars, httpVars, scanVars, budgetVars, deepVars>>

extVars == <<pipeVars, xrefVars, sideVars>>

vars == <<loopVars, callerVars, memVars, extVars>>

Ok(v) == [ok |-> TRUE, val |-> v]
Err(e) == [ok |-> FALSE, err |-> e]
TransportError == "transport failure"

InitLoop ==
    /\ fn = None
    /\ pc = "idle"
    /\ config = None
    /\ messages = <<>>
    /\ turns = 0
    /\ total_input_tokens = 0
    /\ total_output_tokens = 0
    /\ total_cost_usd = 0
    /\ tool_calls = 0
    /\ recent_calls = <<>>
    /\ result = None
    /\ converse_calls = 0
    /\ loop_calls = 0
    /\ failed_calls = 0
    /\ handler_calls = <<>>

InitCaller ==
    /\ caller = None
    /\ findings = <<>>
    /\ findings_in = <<>>
    /\ all_findings = <<>>
    /\ repo_results = <<>>

(***************************************************************************)
(* investigate (agent_review.rs).                                          *)
(***************************************************************************)
\* Lines 141-231: the locals and the initial User message.
InvestigateStart(cfg) ==
    /\ pc = "idle"
    /\ fn' = "investigate"
    /\ config' = cfg
    /\ messages' = <<Message("User", <<Text(InitialText)>>)>>
    /\ pc' = "loop"
    /\ UNCHANGED <<turns, total_input_tokens, total_output_tokens,
                   total_cost_usd, tool_calls, recent_calls, result,
                   converse_calls, loop_calls, failed_calls, handler_calls>>
    /\ UNCHANGED callerVars
    /\ UNCHANGED <<memVars, extVars>>

\* if stats.turns > 0 { break; } return Err(..): a failed converse call ends
\* the loop quietly once a turn has been taken.
\* The failure branch, were it to surface every failure.
HasConversationNever(t) == FALSE

\* The failure branch, were it to surface a failure of the second turn too.
HasConversationLate(t) == t > 1

HasConversation(t) == t > 0

\* ReviewStats::accumulate
Accumulate(usage) ==
    /\ turns' = turns + 1
    /\ total_input_tokens' = total_input_tokens + usage.input_tokens
    /\ total_output_tokens' = total_output_tokens + usage.output_tokens
    /\ total_cost_usd' = total_cost_usd + EstimateCostUsd(usage, config.model)

\* The test, were the summary forced after every loop.
NeedsForcedSummaryAlways(found) == TRUE

\* Line 381: if findings.is_empty()
NeedsForcedSummary(found) == found = <<>>

\* Lines 375-397, after the loop: extraction; with no findings the forced
\* summary prompt is appended and converse is called without tools.
InvAfterLoop(msgs) ==
    IF NeedsForcedSummary(ExtractFindings(msgs))
      THEN /\ messages' =
                PushMessage(msgs, "User", <<Text(ForcedSummaryText)>>)
           /\ converse_calls' = converse_calls + 1
           /\ pc' = "await_summary"
           /\ result' = result
      ELSE /\ messages' = msgs
           /\ converse_calls' = converse_calls
           /\ pc' = "done"
           /\ result' = Ok(ExtractFindings(msgs))

\* Lines 234-258: the hard stops, else the converse call of this turn.
InvLoopTop ==
    /\ fn = "investigate"
    /\ pc = "loop"
    /\ IF HitMaxTurns(turns, config.max_turns)
            \/ HitCostLimit(total_cost_usd, config.cost_limit_usd)
         THEN /\ InvAfterLoop(messages)
              /\ UNCHANGED loop_calls
         ELSE /\ pc' = "await"
              /\ converse_calls' = converse_calls + 1
              /\ loop_calls' = loop_calls + 1
              /\ UNCHANGED <<messages, result>>
    /\ UNCHANGED <<fn, config, turns, total_input_tokens, total_output_tokens,
                   total_cost_usd, tool_calls, recent_calls, failed_calls,
                   handler_calls>>
    /\ UNCHANGED callerVars
    /\ UNCHANGED <<memVars, extVars>>

\* Lines 260-373: the turn's response.
InvResponse(r) ==
    /\ fn = "investigate"
    /\ pc = "await"
    /\ Accumulate(r.usage)
    /\ LET tool_uses == ToolUsesOf(r.content)
           msgs == PushMessage(messages, "Assistant", r.content)
           scan == DetectStuck(recent_calls, tool_uses, 1)
       IN IF r.stop_reason = "EndTurn" \/ tool_uses = <<>>
            THEN /\ InvAfterLoop(msgs)
                 /\ handler_calls' = <<>>
                 /\ UNCHANGED <<recent_calls, tool_calls>>
            ELSE /\ recent_calls' = scan.recent
                 /\ IF scan.stuck
                      THEN /\ messages' =
                                PushMessage(msgs, "User", NudgeResults(tool_uses))
                           /\ handler_calls' = <<>>
                           /\ UNCHANGED tool_calls
                      ELSE /\ messages' =
                                PushMessage(msgs, "User",
                                               ExecuteToolsGuarded(tool_uses))
                           /\ handler_calls' = GuardedHandlerCalls(tool_uses)
                           /\ tool_calls' = tool_calls + Len(tool_uses)
                 /\ pc' = "loop"
                 /\ UNCHANGED <<result, converse_calls>>
    /\ UNCHANGED <<fn, config, loop_calls, failed_calls>>
    /\ UNCHANGED callerVars
    /\ UNCHANGED <<memVars, extVars>>

\* Lines 261-268: the converse call failed.
InvFailure ==
    /\ fn = "investigate"
    /\ pc = "await"
    /\ failed_calls' = failed_calls + 1
    /\ IF HasConversation(turns)
         THEN InvAfterLoop(messages)
         ELSE /\ pc' = "done"
              /\ result' = Err(TransportError)
              /\ UNCHANGED <<messages, converse_calls>>
    /\ UNCHANGED <<fn, config, turns, total_input_tokens, total_output_tokens,
                   total_cost_usd, tool_calls, recent_calls, loop_calls,
                   handler_calls>>
    /\ UNCHANGED callerVars
    /\ UNCHANGED <<memVars, extVars>>

\* Lines 394-423: the forced summary answered.
InvSummaryResponse(r) ==
    /\ fn = "investigate"
    /\ pc = "await_summary"
    /\ Accumulate(r.usage)
    /\ messages' = PushMessage(messages, "Assistant", r.content)
    /\ result' = Ok(ExtractFindings(messages'))
    /\ pc' = "done"
    /\ UNCHANGED <<fn, config, tool_calls, recent_calls, converse_calls,
                   loop_calls, failed_calls, handler_calls>>
    /\ UNCHANGED callerVars
    /\ UNCHANGED <<memVars, extVars>>

\* Lines 394-423: the forced summary failed; the empty extraction stands.
InvSummaryFailure ==
    /\ fn = "investigate"
    /\ pc = "await_summary"
    /\ failed_calls' = failed_calls + 1
    /\ result' = Ok(<<>>)
    /\ pc' = "done"
    /\ UNCHANGED <<fn, config, messages, turns, total_input_tokens,
                   total_output_tokens, total_cost_usd, tool_calls,
                   recent_calls, converse_calls, loop_calls, handler_calls>>
    /\ UNCHANGED callerVars
    /\ UNCHANGED <<memVars, extVars>>

(***************************************************************************)
(* validate and validate_findings (validator.rs).  The two loops are the   *)
(* same text; fn tells which function runs.                                *)
(***************************************************************************)
InitialValidatorText == "Review the following security finding(s)"
ForcedVerdictsText == "produce your final verdicts NOW as a JSON array"

\* Lines 66-108 and 259-302: the early return on an empty list, else the
\* locals and the initial User message.
ValidatorEnter(f, fs, cfg) ==
    /\ fn' = f
    /\ config' = cfg
    /\ IF fs = <<>>
         THEN /\ pc' = "done"
              /\ result' = Ok(<<>>)
              /\ UNCHANGED messages
         ELSE /\ pc' = "loop"
              /\ messages' = <<Message("User", <<Text(InitialValidatorText)>>)>>
              /\ UNCHANGED result
    /\ UNCHANGED <<turns, total_input_tokens, total_output_tokens,
                   total_cost_usd, tool_calls, recent_calls, converse_calls,
                   loop_calls, failed_calls, handler_calls>>

\* main.rs, the test command: validate on the investigator's findings.
TestValidate(fs, cfg) ==
    /\ pc = "idle"
    /\ caller' = "test"
    /\ findings' = fs
    /\ findings_in' = fs
    /\ ValidatorEnter("validate", fs, cfg)
    /\ UNCHANGED <<all_findings, repo_results>>
    /\ UNCHANGED <<memVars, extVars>>

\* agent/mod.rs lines 233-245: a deep scan returned findings, and since
\* they are not empty validate_findings is called on them.
PipelineValidate(fs, cfg) ==
    /\ pc = "idle"
    /\ fs # <<>>
    /\ caller' = "pipeline"
    /\ findings' = fs
    /\ findings_in' = fs
    /\ ValidatorEnter("validate_findings", fs, cfg)
    /\ UNCHANGED <<all_findings, repo_results>>
    /\ UNCHANGED <<memVars, extVars>>

\* Lines 219-252 (validate) and 401-443 (validate_findings).
ValidatorReturn(verdicts) ==
    /\ pc' = "done"
    /\ IF fn = "validate"
         THEN /\ result' = Ok(Validated(findings, verdicts))
              /\ UNCHANGED findings
         ELSE /\ result' = Ok("unit")
              /\ findings' = PostProcess(findings, verdicts)

\* Lines 183-197 and 375-389, after the loop.
ValAfterLoop(msgs) ==
    IF ExtractVerdicts(msgs) = <<>>
      THEN /\ messages' =
                PushMessage(msgs, "User", <<Text(ForcedVerdictsText)>>)
           /\ converse_calls' = converse_calls + 1
           /\ pc' = "await_summary"
           /\ UNCHANGED <<result, findings>>
      ELSE /\ messages' = msgs
           /\ converse_calls' = converse_calls
           /\ ValidatorReturn(ExtractVerdicts(msgs))

IsValidator == fn \in {"validate", "validate_findings"}

\* Lines 111-121 and 305-315.
ValLoopTop ==
    /\ IsValidator
    /\ pc = "loop"
    /\ IF HitMaxTurns(turns, ValidatorMaxTurns(config))
            \/ HitCostLimit(total_cost_usd, config.cost_limit_usd)
         THEN /\ ValAfterLoop(messages)
              /\ UNCHANGED loop_calls
         ELSE /\ pc' = "await"
              /\ converse_calls' = converse_calls + 1
              /\ loop_calls' = loop_calls + 1
              /\ UNCHANGED <<messages, result, findings>>
    /\ UNCHANGED <<fn, config, turns, total_input_tokens, total_output_tokens,
                   total_cost_usd, tool_calls, recent_calls, failed_calls,
                   handler_calls>>
    /\ UNCHANGED <<caller, findings_in, all_findings, repo_results>>
    /\ UNCHANGED <<memVars, extVars>>

\* Lines 122-179 and 316-372.
ValResponse(r) ==
    /\ IsValidator
    /\ pc = "await"
    /\ turns' = turns + 1
    /\ total_cost_usd' = total_cost_usd + EstimateCostUsd(r.usage, config.model)
    /\ LET tool_uses == ToolUsesOf(r.content)
           msgs == PushMessage(messages, "Assistant", r.content)
       IN IF r.stop_reason = "EndTurn" \/ tool_uses = <<>>
            THEN /\ ValAfterLoop(msgs)
                 /\ handler_calls' = <<>>
            ELSE /\ messages' =
                      PushMessage(msgs, "User", ExecuteTools(tool_uses))
                 /\ handler_calls' = HandlerCalls(tool_uses)
                 /\ pc' = "loop"
                 /\ UNCHANGED <<result, converse_calls, findings>>
    /\ UNCHANGED <<fn, config, total_input_tokens, total_output_tokens,
                   tool_calls, recent_calls, loop_calls, failed_calls>>
    /\ UNCHANGED <<caller, findings_in, all_findings, repo_results>>
    /\ UNCHANGED <<memVars, extVars>>

\* Lines 123-129 and 317-323.
ValFailure ==
    /\ IsValidator
    /\ pc = "await"
    /\ failed_calls' = failed_calls + 1
    /\ IF HasConversation(turns)
         THEN ValAfterLoop(messages)
         ELSE /\ pc' = "done"
              /\ result' = Err(TransportError)
              /\ UNCHANGED <<messages, converse_calls, findings>>
    /\ UNCHANGED <<fn, config, turns, total_input_tokens, total_output_tokens,
                   total_cost_usd, tool_calls, recent_calls, loop_calls,
                   handler_calls>>
    /\ UNCHANGED <<caller, findings_in, all_findings, repo_results>>
    /\ UNCHANGED <<memVars, extVars>>

\* Lines 197-217 and 389-399: the forced summary answered.
ValSummaryResponse(r) ==
    /\ IsValidator
    /\ pc = "await_summary"
    /\ turns' = turns + 1
    /\ total_cost_usd' = total_cost_usd + EstimateCostUsd(r.usage, config.model)
    /\ messages' = PushMessage(messages, "Assistant", r.content)
    /\ ValidatorReturn(ExtractVerdicts(messages'))
    /\ UNCHANGED <<fn, config, total_input_tokens, total_output_tokens,
                   tool_calls, recent_calls, converse_calls, loop_calls,
                   failed_calls, handler_calls>>
    /\ UNCHANGED <<caller, findings_in, all_findings, repo_results>>
    /\ UNCHANGED <<memVars, extVars>>

\* The forced summary failed: the verdict list stays empty.
ValSummaryFailure ==
    /\ IsValidator
    /\ pc = "await_summary"
    /\ failed_calls' = failed_calls + 1
    /\ ValidatorReturn(<<>>)
    /\ UNCHANGED <<fn, config, messages, turns, total_input_tokens,
                   total_output_tokens, total_cost_usd, tool_calls,
                   recent_calls, converse_calls, loop_calls, handler_calls>>
    /\ UNCHANGED <<caller, findings_in, all_findings, repo_results>>
    /\ UNCHANGED <<memVars, extVars>>

RepoName == "vault"

ValidationError(e) ==
    CASE e = TransportError -> "validation: transport failure"
      [] OTHER -> "validation: error"

\* agent/mod.rs lines 246-261: validate_findings returned; its error, if
\* any, goes to repo_errors, and the findings and the RepoResult are kept.
PipelineRecord ==
    /\ caller = "pipeline"
    /\ pc = "done"
    /\ pc' = "recorded"
    /\ all_findings' = all_findings \o findings
    /\ repo_results' =
         Append(repo_results,
                [name |-> RepoName,
                 findings_count |-> Len(findings),
                 errors |-> IF result.ok
                              THEN <<>>
                              ELSE <<ValidationError(result.err)>>])
    /\ UNCHANGED <<fn, config, messages, turns, total_input_tokens,
                   total_output_tokens, total_cost_usd, tool_calls,
                   recent_calls, result, converse_calls, loop_calls,
                   failed_calls, handler_calls>>
    /\ UNCHANGED <<caller, findings, findings_in>>
    /\ UNCHANGED <<memVars, extVars>>

\* Whether the run holds a RepoResult of `name` with errors, or with the
\* error `error`.
FailedIn(history, name) ==
    \E i \in 1..Len(history.repo_results) :
        /\ history.repo_results[i].name = name
        /\ history.repo_results[i].errors # <<>>

FailedWith(history, name, error) ==
    \E i \in 1..Len(history.repo_results) :
        /\ history.repo_results[i].name = name
        /\ \E j \in 1..Len(history.repo_results[i].errors) :
               history.repo_results[i].errors[j] = error

\* How many error records of the run carry `error` for the repo `name`.
RecordsOf(history, name, error) ==
    Cardinality({ij \in (1..Len(history.repo_results)) \X (1..2) :
                    /\ history.repo_results[ij[1]].name = name
                    /\ ij[2] <= Len(history.repo_results[ij[1]].errors)
                    /\ history.repo_results[ij[1]].errors[ij[2]] = error})

InitMemory ==
    /\ run_memory = DefaultRunMemory
    /\ fail_streak = [n \in RepoNames |-> 0]
    /\ same_streak = [k \in RepoNames \X ErrorTexts |-> 0]
    /\ fail_runs = [n \in RepoNames |-> 0]
    /\ fail_records = [k \in RepoNames \X ErrorTexts |-> 0]

\* update_from_run on the memory, and the observers of the run.
ApplyRun(history) ==
    /\ run_memory' = UpdateFromRun(run_memory, history)
    /\ fail_streak' =
         [n \in RepoNames |->
            IF FailedIn(history, n) THEN fail_streak[n] + 1 ELSE 0]
    /\ same_streak' =
         [k \in RepoNames \X ErrorTexts |->
            IF FailedWith(history, k[1], k[2]) THEN same_streak[k] + 1 ELSE 0]
    /\ fail_runs' =
         [n \in RepoNames |->
            IF FailedIn(history, n) THEN fail_runs[n] + 1 ELSE fail_runs[n]]
    /\ fail_records' =
         [k \in RepoNames \X ErrorTexts |->
            fail_records[k] + RecordsOf(history, k[1], k[2])]

\* One completed run folded into the memory.
MemoryUpdate(history) ==
    /\ run_memory.total_runs < MaxRuns
    /\ ApplyRun(history)
    /\ UNCHANGED <<loopVars, callerVars, extVars>>

(***************************************************************************)
(* run_full_pipeline (agent/mod.rs), one run.                              *)
(***************************************************************************)
Narrative(active_repos) == [active_repos |-> active_repos]

NarrativeSamples ==
    {Narrative(<<TargetAR>>), Narrative(<<TargetAR, TargetBR>>),
     Narrative(<<TargetAQ, TargetAR>>), Narrative(<<BareS>>)}

NarrativeLists == SeqsUpTo(NarrativeSamples, MaxNarratives)

\* Config targets (always_scan, the directories under its repos_dir), the
\* clones already in repos_dir, and the deep flag.
RunEnv(always_scan, local_dirs, cloned, deep) ==
    [always_scan |-> always_scan, local_dirs |-> local_dirs,
     cloned |-> cloned, deep |-> deep]

RunEnvs ==
    {RunEnv(<<>>, {}, {}, TRUE),
     RunEnv(<<BareS>>, {BareS}, {<<"r">>}, TRUE),
     RunEnv(<<BareQ, BareS>>, {BareQ, BareS}, {}, FALSE)}

\* What the memory file can hold: nothing, or earlier runs' blocklists.
MemoryWith(blocklist) ==
    [total_runs |-> 3, repo_blocklist |-> blocklist,
     error_memory |->
        [key \in {FormatKey(blocklist[k], CloneFailed) :
                     k \in 1..Len(blocklist)} |-> 3]]

LoadedMemories ==
    {DefaultRunMemory, MemoryWith(<<<<"r">>>>), MemoryWith(<<<<"s">>>>),
     MemoryWith(<<<<"q">>, <<"r">>>>)}

NotFoundLocally == <<"n">>
ScanFailed == <<"f">>
ValidationFailed == <<"v">>

InitPipeline ==
    /\ run_pc = "start"
    /\ run_env = None
    /\ narratives = <<>>
    /\ targets = <<>>
    /\ target_idx = 1
    /\ run_history = <<>>
    /\ loaded_memory = None
    /\ attempted = <<>>
    /\ events = <<>>

\* The order, were the memory updated before the report is written.
PhaseAfterUpdateFirst(phase) ==
    CASE phase = "cross_ref" -> "update"
      [] phase = "update" -> "report"
      [] phase = "report" -> "history"
      [] phase = "history" -> "save"
      [] phase = "save" -> "complete"

\* The order of the statements after the target loop (lines 274-313).
PhaseAfter(phase) ==
    CASE phase = "cross_ref" -> "report"
      [] phase = "report" -> "history"
      [] phase = "history" -> "update"
      [] phase = "update" -> "save"
      [] phase = "save" -> "complete"

\* Line 34: RunMemory::load_or_default()
LoadMemory(mem, env) ==
    /\ run_pc = "start"
    /\ run_pc' = "narratives"
    /\ run_memory' = mem
    /\ loaded_memory' = mem
    /\ run_env' = env
    /\ events' = Append(events, "load")
    /\ UNCHANGED <<narratives, targets, target_idx, run_history, attempted>>
    /\ UNCHANGED <<fail_streak, same_streak, fail_runs, fail_records>>
    /\ UNCHANGED <<loopVars, callerVars, xrefVars, sideVars>>

\* Lines 48-51: narrative detection, whose error ends the run.
DetectNarratives(ns, ok) ==
    /\ run_pc = "narratives"
    /\ IF ok
         THEN narratives' = ns /\ run_pc' = "select"
         ELSE UNCHANGED narratives /\ run_pc' = "no_narratives"
    /\ UNCHANGED <<run_env, targets, target_idx, run_history, loaded_memory,
                   attempted, events>>
    /\ UNCHANGED <<loopVars, callerVars, memVars, xrefVars, sideVars>>

\* Lines 54-103: the targets, and create_dir_all(&repos_dir)?.
ChooseTargets(dir_ok) ==
    /\ run_pc = "select"
    /\ targets' = SelectTargets(narratives, run_env, run_memory.repo_blocklist)
    /\ run_pc' = IF ~dir_ok THEN "aborted"
                 ELSE IF targets' = <<>> THEN "cross_ref" ELSE "scan"
    /\ UNCHANGED <<run_env, narratives, target_idx, run_history,
                   loaded_memory, attempted, events>>
    /\ UNCHANGED <<loopVars, callerVars, memVars, xrefVars, sideVars>>

\* repo_path.exists() for a target (lines 125-140).
RepoPathExists(t, env) ==
    IF ContainsSlash(t)
      THEN TailOf(t) \in env.cloned
      ELSE TailOf(t) \in env.local_dirs \/ TailOf(t) \in env.cloned

ScanOutcomes ==
    {"not_found", "spawn_error", "clone_failed", "scan_failed", "scan_empty",
     "scan_findings", "validation_failed"}

\* Lines 121-272: one iteration of the target loop.
ScanTarget(outcome) ==
    /\ run_pc = "scan"
    /\ LET t == targets[target_idx]
           name == TailOf(t)
           exists == RepoPathExists(t, run_env)
           push(count, errors) ==
             /\ run_history' = Append(run_history, RepoResult(name, count, errors))
             /\ target_idx' = target_idx + 1
             /\ run_pc' = IF target_idx = Len(targets) THEN "cross_ref" ELSE "scan"
           scanned ==
             /\ run_env' = [run_env EXCEPT !.cloned = @ \cup {name}]
             /\ attempted' = Append(attempted, t)
       IN CASE outcome = "not_found" ->
                 /\ ~exists /\ ~ContainsSlash(t)
                 /\ push(0, <<NotFoundLocally>>)
                 /\ UNCHANGED <<run_env, attempted>>
            [] outcome = "spawn_error" ->
                 /\ ~exists /\ ContainsSlash(t)
                 /\ run_pc' = "aborted"
                 /\ attempted' = Append(attempted, t)
                 /\ UNCHANGED <<run_env, run_history, target_idx>>
            [] outcome = "clone_failed" ->
                 /\ ~exists /\ ContainsSlash(t)
                 /\ push(0, <<CloneFailed>>)
                 /\ attempted' = Append(attempted, t)
                 /\ UNCHANGED run_env
            [] outcome = "scan_failed" ->
                 /\ exists \/ ContainsSlash(t)
                 /\ push(0, <<ScanFailed>>)
                 /\ scanned
            [] outcome = "scan_empty" ->
                 /\ exists \/ ContainsSlash(t)
                 /\ push(0, <<>>)
                 /\ scanned
            [] outcome = "scan_findings" ->
                 /\ exists \/ ContainsSlash(t)
                 /\ push(2, <<>>)
                 /\ scanned
            [] outcome = "validation_failed" ->
                 /\ exists \/ ContainsSlash(t)
                 /\ run_env.deep
                 /\ push(2, <<ValidationFailed>>)
                 /\ scanned
    /\ UNCHANGED <<narratives, targets, loaded_memory, events>>
    /\ UNCHANGED <<loopVars, callerVars, memVars, xrefVars, sideVars>>

\* Line 276: cross_ref::analyze, which returns Ok.
CrossReference ==
    /\ run_pc = "cross_ref"
    /\ run_pc' = PhaseAfter(run_pc)
    /\ UNCHANGED <<run_env, narratives, targets, target_idx, run_history,
                   loaded_memory, attempted, events>>
    /\ UNCHANGED <<loopVars, callerVars, memVars, xrefVars, sideVars>>

\* Lines 285-293: render and write the report; an error ends the run.
WriteReport(ok) ==
    /\ run_pc = "report"
    /\ IF ok
         THEN run_pc' = PhaseAfter(run_pc) /\ events' = Append(events, "report")
         ELSE run_pc' = "aborted" /\ UNCHANGED events
    /\ UNCHANGED <<run_env, narratives, targets, target_idx, run_history,
                   loaded_memory, attempted>>
    /\ UNCHANGED <<loopVars, callerVars, memVars, xrefVars, sideVars>>

\* Lines 304-306: run_history.save(), whose error is only logged.
SaveHistory ==
    /\ run_pc = "history"
    /\ run_pc' = PhaseAfter(run_pc)
    /\ events' = Append(events, "history")
    /\ UNCHANGED <<run_env, narratives, targets, target_idx, run_history,
                   loaded_memory, attempted>>
    /\ UNCHANGED <<loopVars, callerVars, memVars, xrefVars, sideVars>>

\* Lines 307-308: run_memory.update_from_run(&run_history)
UpdateMemory ==
    /\ run_pc = "update"
    /\ run_pc' = PhaseAfter(run_pc)
    /\ ApplyRun([repo_results |-> run_history])
    /\ events' = Append(events, "update")
    /\ UNCHANGED <<run_env, narratives, targets, target_idx, run_history,
                   loaded_memory, attempted>>
    /\ UNCHANGED <<loopVars, callerVars, xrefVars, sideVars>>

\* Lines 309-313: run_memory.save(), whose error is only logged; Ok(()).
SaveMemory(ok) ==
    /\ run_pc = "save"
    /\ run_pc' = PhaseAfter(run_pc)
    /\ events' = Append(events, IF ok THEN "save" ELSE "save_failed")
    /\ UNCHANGED <<run_env, narratives, targets, target_idx, run_history,
                   loaded_memory, attempted>>
    /\ UNCHANGED <<loopVars, callerVars, memVars, xrefVars, sideVars>>

(***************************************************************************)
(* cross_ref::analyze (agent/cross_ref.rs).  Scores are exact numbers in   *)
(* units of 1/2000: severity weights in halves, validation multipliers in  *)
(* tenths, confidence in hundredths.                                       *)
(***************************************************************************)
MaxFindings == 2

ReposSlash == <<"r", "e", "p", "o", "s", "/">>
UnknownRepo == <<"u", "n", "k", "n", "o", "w", "n">>

\* str::find: the index of the first occurrence of pat in s at or after i,
\* 0 when there is none.
RECURSIVE FindFrom(_, _, _)
FindFrom(s, pat, i) ==
    IF i + Len(pat) - 1 > Len(s)
      THEN 0
      ELSE IF SubSeq(s, i, i + Len(pat) - 1) = pat
             THEN i
             ELSE FindFrom(s, pat, i + 1)

\* The pieces of s between '/' characters, from position i on.
RECURSIVE SplitSlash(_, _)
SplitSlash(s, i) ==
    IF i > Len(s) + 1
      THEN <<>>
      ELSE LET rest == SubSeq(s, i, Len(s))
               slash == FindFrom(rest, <<"/">>, 1)
           IN IF slash = 0
                THEN <<rest>>
                ELSE <<SubSeq(rest, 1, slash - 1)>> \o SplitSlash(s, i + slash)

RECURSIVE KeepPieces(_, _, _)
KeepPieces(pieces, k, absolute) ==
    IF k > Len(pieces)
      THEN <<>>
      ELSE (IF /\ pieces[k] # <<>>
               /\ pieces[k] = <<".">> => (k = 1 /\ ~absolute)
              THEN <<pieces[k]>>
              ELSE <<>>) \o KeepPieces(pieces, k + 1, absolute)

\* Path::components(): the root of an absolute path, then the pieces that
\* are not empty; a "." is kept only as the first piece of a relative path.
Components(path) ==
    LET absolute == Len(path) > 0 /\ path[1] = "/"
    IN (IF absolute THEN <<<<"/">>>> ELSE <<>>)
         \o KeepPieces(SplitSlash(path, 1), 1, absolute)

\* find_map over the components (lines 212-221).
RECURSIVE FirstMeaningful(_, _)
FirstMeaningful(comps, i) ==
    IF i > Len(comps)
      THEN UnknownRepo
      ELSE IF /\ comps[i] # <<".">>
              /\ comps[i] # <<".", ".">>
              /\ comps[i] # <<"r", "e", "p", "o", "s">>
             THEN comps[i]
             ELSE FirstMeaningful(comps, i + 1)

\* repo_name_from_path (lines 201-222)
RepoNameFromPath(path) ==
    LET idx == FindFrom(path, ReposSlash, 1)
    IN IF idx # 0
         THEN LET after == SubSeq(path, idx + 6, Len(path))
                  slash == FindFrom(after, <<"/">>, 1)
              IN IF slash # 0 THEN SubSeq(after, 1, slash - 1) ELSE after
         ELSE FirstMeaningful(Components(path), 1)

\* Lines 48-52: the tails of a narrative's active_repos.
RepoTails(active_repos) ==
    [k \in 1..Len(active_repos) |-> TailOf(active_repos[k])]

\* A match that does not look at the tails.
IsMatchedAlways(tails, repo) == TRUE

\* Line 58: repo_tails.iter().any(|tail| *tail == repo)
IsMatched(tails, repo) == \E k \in 1..Len(tails) : tails[k] = repo

\* Lines 55-61: the pairs (finding index, repo name), in the findings' order;
\* indices count from 0.
RECURSIVE Matched(_, _, _)
Matched(tails, fs, i) ==
    IF i > Len(fs)
      THEN <<>>
      ELSE LET repo == RepoNameFromPath(fs[i].file_path)
           IN (IF IsMatched(tails, repo) THEN <<<<i - 1, repo>>>> ELSE <<>>)
                \o Matched(tails, fs, i + 1)

\* Lines 72-78: severity_weight, in halves.
SeverityWeight(severity) ==
    CASE severity = "Critical" -> 20
      [] severity = "High" -> 10
      [] severity = "Medium" -> 4
      [] severity = "Low" -> 1
      [] OTHER -> 0

\* The multiplier, were a Disputed finding to count in full.
ValidationMultiplierFull(status) ==
    CASE status = "Confirmed" -> 10
      [] status = "Disputed" -> 10
      [] status = "Unvalidated" -> 7
      [] status = "Dismissed" -> 0

\* validation_multiplier (lines 191-198), in tenths.
ValidationMultiplier(status) ==
    CASE status = "Confirmed" -> 10
      [] status = "Disputed" -> 5
      [] status = "Unvalidated" -> 7
      [] status = "Dismissed" -> 0

\* Lines 69-84: the sum over the matched findings from position i on.
RECURSIVE RiskScore(_, _, _, _)
RiskScore(matched, fs, confidence, i) ==
    IF i > Len(matched)
      THEN 0
      ELSE LET finding == fs[matched[i][1] + 1]
           IN SeverityWeight(finding.severity)
                * ValidationMultiplier(finding.validation_status) * confidence
              + RiskScore(matched, fs, confidence, i + 1)

\* The table, were its lower bounds open.
RiskLevelStrict(score) ==
    IF score > 40000 THEN "Critical"
    ELSE IF score > 20000 THEN "High"
    ELSE IF score > 10000 THEN "Medium"
    ELSE IF score > 2000 THEN "Low"
    ELSE "None"

\* Lines 86-96, thresholds 20, 10, 5 and 1 in units of 1/2000.
RiskLevel(score) ==
    IF score >= 40000 THEN "Critical"
    ELSE IF score >= 20000 THEN "High"
    ELSE IF score >= 10000 THEN "Medium"
    ELSE IF score >= 2000 THEN "Low"
    ELSE "None"

\* The vector of a key, were every matched index pushed to every key.
IndicesOfAll(matched, repo) ==
    [k \in 1..Len(matched) |-> matched[k][1]]

\* Line 83: the vector of one key of repo_finding_map.
IndicesOf(matched, repo) ==
    LET mine == SelectSeq(matched, LAMBDA m : m[2] = repo)
    IN [k \in 1..Len(mine) |-> mine[k][1]]

MatchedRepos(matched) == {matched[k][2] : k \in 1..Len(matched)}

\* Line 98: the map's entries in an order of the hash map's choosing.
EntryOrders(matched) ==
    LET repos == MatchedRepos(matched)
    IN {q \in [1..Cardinality(repos) -> repos] :
          \A i, j \in 1..Cardinality(repos) : q[i] = q[j] => i = j}

RepoFindings(matched, order) ==
    [k \in 1..Len(order) |-> <<order[k], IndicesOf(matched, order[k])>>]

\* Lines 106-127: the relevance text and the links of narrative ni.
FallbackRelevance(repo) == <<"linked via active_repos", repo>>

Links(matched, ni, llm_summary) ==
    [k \in 1..Len(matched) |->
       [narrative_idx |-> ni, finding_idx |-> matched[k][1],
        repo |-> matched[k][2],
        relevance |-> IF llm_summary # None
                        THEN llm_summary
                        ELSE FallbackRelevance(matched[k][2])]]

\* A narrative as analyze reads and writes it.
XNarrative(active_repos, confidence) ==
    [active_repos |-> active_repos, confidence |-> confidence,
     finding_count |-> 0, risk_score |-> 0, risk_level |-> "",
     repo_findings |-> <<>>]

NarrativeR == XNarrative(<<TargetAR>>, 80)
NarrativeRR == XNarrative(<<TargetAR, TargetBR>>, 100)
NarrativeQR == XNarrative(<<TargetAQ, TargetAR>>, 85)
NarrativeS == XNarrative(<<BareS>>, 50)
NarrativeNoRepos == XNarrative(<<>>, 100)

\* The narrative lists analyze is called with: none, one, or two narratives
\* with shared or with separate repos.
XNarrativeLists ==
    {<<>>, <<NarrativeR>>, <<NarrativeRR>>, <<NarrativeQR>>, <<NarrativeS>>,
     <<NarrativeNoRepos>>, <<NarrativeQR, NarrativeS>>,
     <<NarrativeRR, NarrativeS>>, <<NarrativeR, NarrativeQR>>}

XFinding(file_path, severity, validation_status) ==
    [file_path |-> file_path, severity |-> severity,
     validation_status |-> validation_status]

PathReposR == ReposSlash \o <<"r", "/", "x">>
PathReposQ == <<"t", "/">> \o ReposSlash \o <<"q", "/", "x">>
PathReposS == ReposSlash \o <<"s">>
PathBareR == <<"r", "/", "x">>
PathDotQ == <<".", "/", "q", "/", "x">>
PathRootR == <<"/", "r", "/", "x">>

XFindingSamples ==
    {XFinding(PathReposR, "Critical", "Confirmed"),
     XFinding(PathReposR, "Medium", "Disputed"),
     XFinding(PathReposR, "Info", "Confirmed"),
     XFinding(PathReposQ, "High", "Unvalidated"),
     XFinding(PathReposS, "Medium", "Confirmed"),
     XFinding(PathBareR, "High", "Confirmed"),
     XFinding(PathDotQ, "Critical", "Dismissed"),
     XFinding(PathRootR, "High", "Confirmed"),
     XFinding(<<>>, "Low", "Unvalidated")}

LlmSummaries == {None, "summary"}

InitCrossRef ==
    /\ xr_pc = "idle"
    /\ xr_narratives = <<>>
    /\ xr_findings = <<>>
    /\ xr_links = <<>>
    /\ xr_ni = 0

\* Lines 34-44: the call, with its narratives and findings.
AnalyzeStart ==
    /\ xr_pc = "idle"
    /\ \E ns \in XNarrativeLists,
          fs \in SeqsUpTo(XFindingSamples, MaxFindings) :
         /\ xr_narratives' = ns
         /\ xr_findings' = fs
    /\ xr_links' = <<>>
    /\ xr_ni' = 0
    /\ xr_pc' = "loop"
    /\ UNCHANGED <<loopVars, callerVars, memVars, pipeVars, sideVars>>

\* Lines 46-138: one iteration of the loop over the narratives.
AnalyzeNarrative(llm_summary) ==
    /\ xr_pc = "loop"
    /\ xr_ni < Len(xr_narratives)
    /\ LET narrative == xr_narratives[xr_ni + 1]
           matched == Matched(RepoTails(narrative.active_repos), xr_findings, 1)
           risk_score == RiskScore(matched, xr_findings, narrative.confidence, 1)
       IN /\ matched = <<>> => llm_summary = None
          /\ \E order \in EntryOrders(matched) :
               xr_narratives' =
                 [xr_narratives EXCEPT ![xr_ni + 1] =
                    [@ EXCEPT !.finding_count = Len(matched),
                              !.risk_score = risk_score,
                              !.risk_level = RiskLevel(risk_score),
                              !.repo_findings = RepoFindings(matched, order)]]
          /\ xr_links' = xr_links \o Links(matched, xr_ni, llm_summary)
    /\ xr_ni' = xr_ni + 1
    /\ UNCHANGED <<xr_pc, xr_findings>>
    /\ UNCHANGED <<loopVars, callerVars, memVars, pipeVars, sideVars>>

\* Lines 140-141: Ok(all_links)
AnalyzeReturn ==
    /\ xr_pc = "loop"
    /\ xr_ni = Len(xr_narratives)
    /\ xr_pc' = "done"
    /\ UNCHANGED <<xr_narratives, xr_findings, xr_links, xr_ni>>
    /\ UNCHANGED <<loopVars, callerVars, memVars, pipeVars, sideVars>>

(***************************************************************************)
(* The tool handlers on a file tree (agent_tools.rs).  Path strings are    *)
(* sequences of characters; a canonical path is the sequence of its        *)
(* component names below "/".                                              *)
(***************************************************************************)
NameW == <<"w">>
NameRepo == <<"r", "e", "p", "o">>
NameSecret == <<"s", "e", "c">>
NameSrc == <<"s", "r", "c">>
NameLib == <<"l", "i", "b", ".", "r", "s">>
NameDeep == <<"d", "e", "e", "p">>
NameX == <<"x">>
NameGit == <<".", "g", "i", "t">>
NameHead == <<"H">>
NameTarget == <<"t", "a", "r", "g", "e", "t">>
NameDebug == <<"d">>
NameLink == <<"l", "n", "k">>
NameBig == <<"b", "i", "g">>
NameWide == <<"w", "i", "d", "e">>

Slash == <<"/">>
DotDot == <<".", ".">>

\* The working directory of the process, and the repository /w/repo.
Cwd == <<NameW>>
RepoCanonical == <<NameW, NameRepo>>

Dir(path) == [path |-> path, kind |-> "dir"]
File(path) == [path |-> path, kind |-> "file"]
Symlink(path, target) == [path |-> path, kind |-> "link", target |-> target]

\* /w/repo holds src/lib.rs, src/deep/x, .git/H, target/d, the files big
\* and wide, and lnk, a symbolic link to the file /w/sec outside it.
FileTree ==
    {Dir(<<NameW>>), File(<<NameW, NameSecret>>), Dir(RepoCanonical),
     Dir(RepoCanonical \o <<NameSrc>>),
     File(RepoCanonical \o <<NameSrc, NameLib>>),
     Dir(RepoCanonical \o <<NameSrc, NameDeep>>),
     File(RepoCanonical \o <<NameSrc, NameDeep, NameX>>),
     Dir(RepoCanonical \o <<NameGit>>),
     File(RepoCanonical \o <<NameGit, NameHead>>),
     Dir(RepoCanonical \o <<NameTarget>>),
     Dir(RepoCanonical \o <<NameTarget, NameDebug>>),
     File(RepoCanonical \o <<NameBig>>),
     File(RepoCanonical \o <<NameWide>>),
     Symlink(RepoCanonical \o <<NameLink>>, <<NameW, NameSecret>>)}

Exists(path) == path = <<>> \/ \E n \in FileTree : n.path = path
NodeAt(path) ==
    IF path = <<>> THEN Dir(<<>>) ELSE CHOOSE n \in FileTree : n.path = path

\* The spellings of the repository root the handlers are called with.
RootAbsolute == Slash \o NameW \o Slash \o NameRepo
RootRelative == NameRepo
RepoRoots == {RootAbsolute, RootRelative}

IsAbsolute(s) == Len(s) > 0 /\ s[1] = "/"

\* user_path.replace('\\', "/")
ReplaceBackslash(s) == [k \in 1..Len(s) |-> IF s[k] = "\\" THEN "/" ELSE s[k]]

\* trim_start_matches('/')
RECURSIVE TrimStartSlashes(_)
TrimStartSlashes(s) ==
    IF Len(s) > 0 /\ s[1] = "/" THEN TrimStartSlashes(Tail(s)) ELSE s

\* Path::join: the text of base joined with a relative text.
JoinPath(base, rel) ==
    IF rel = <<>> THEN base
    ELSE IF base[Len(base)] = "/" THEN base \o rel
    ELSE base \o Slash \o rel

\* fs::canonicalize of the components comps from position i on, cur being
\* the canonical path so far: "." is skipped, ".." goes up, a symbolic link
\* is followed, a missing entry or a step below a file is an error.
RECURSIVE Resolve(_, _, _)
Resolve(cur, comps, i) ==
    IF i > Len(comps)
      THEN Ok(cur)
      ELSE LET c == comps[i]
           IN IF c = <<>> \/ c = <<".">>
                THEN Resolve(cur, comps, i + 1)
              ELSE IF c = DotDot
                THEN Resolve(IF cur = <<>> THEN <<>>
                             ELSE SubSeq(cur, 1, Len(cur) - 1), comps, i + 1)
              ELSE IF NodeAt(cur).kind # "dir" \/ ~Exists(cur \o <<c>>)
                THEN Err("not found")
              ELSE LET n == NodeAt(cur \o <<c>>)
                   IN Resolve(IF n.kind = "link" THEN n.target ELSE n.path,
                              comps, i + 1)

Canonicalize(s) ==
    Resolve(IF IsAbsolute(s) THEN <<>> ELSE Cwd, SplitSlash(s, 1), 1)

\* Path::starts_with on canonical paths: whole components.
PathStartsWithAlways(path, base) == TRUE

PathStartsWith(path, base) ==
    Len(base) <= Len(path) /\ SubSeq(path, 1, Len(base)) = base

\* safe_resolve (lines 119-141)
SafeResolve(repo_root, user_path) ==
    LET cleaned == TrimStartSlashes(ReplaceBackslash(user_path))
    IN IF FindFrom(cleaned, DotDot, 1) # 0
         THEN Err("Path traversal (..) is not allowed")
         ELSE LET canonical_root == Canonicalize(repo_root)
                  canonical == Canonicalize(JoinPath(repo_root, cleaned))
              IN IF ~canonical_root.ok THEN Err("Cannot resolve repo root")
                 ELSE IF ~canonical.ok THEN Err("Cannot resolve path")
                 ELSE IF ~PathStartsWith(canonical.val, canonical_root.val)
                        THEN Err("Path resolves outside repository")
                        ELSE Ok(canonical.val)

\* A text as runs of characters of one encoded width: <<width, count>>.
Ascii(n) == IF n = 0 THEN <<>> ELSE <<<<1, n>>>>

RECURSIVE ByteLen(_)
ByteLen(t) == IF t = <<>> THEN 0 ELSE t[1][1] * t[1][2] + ByteLen(Tail(t))

RECURSIVE CharLen(_)
CharLen(t) == IF t = <<>> THEN 0 ELSE t[1][2] + CharLen(Tail(t))

\* s[..n]: the characters in the first n bytes of t, an error when byte n
\* falls inside a character.
RECURSIVE TakeBytes(_, _)
TakeBytes(t, n) ==
    IF n = 0 THEN Ok(<<>>)
    ELSE IF t = <<>> THEN Err("out of range")
    ELSE LET width == t[1][1]
             count == t[1][2]
         IN IF n >= width * count
              THEN LET rest == TakeBytes(Tail(t), n - width * count)
                   IN IF rest.ok THEN Ok(<<t[1]>> \o rest.val) ELSE rest
              ELSE IF n % width = 0
                     THEN Ok(<<<<width, n \div width>>>>)
                     ELSE Err("not a char boundary")

MaxResultChars == 5000

\* What a handler call comes to: a (text, is_error) pair, the text being a
\* labelled body with or without the "\n... [truncated]" marker, or a panic.
ToolReturn(label, body, marker, is_error) ==
    [kind |-> "returned", label |-> label, body |-> body, marker |-> marker,
     is_error |-> is_error, entries |-> <<>>, range |-> <<>>]
Panic(at) == [kind |-> "panic", at |-> at]
ToolError(label, len) == ToolReturn(label, Ascii(len), FALSE, TRUE)

\* truncate (lines 143-151): the body and whether the marker was pushed.
Truncate(s) ==
    IF ByteLen(s) <= MaxResultChars
      THEN Ok([body |-> s, marker |-> FALSE])
      ELSE LET cut == TakeBytes(s, MaxResultChars)
           IN IF cut.ok THEN Ok([body |-> cut.val, marker |-> TRUE])
              ELSE Err("byte index is not a char boundary")

\* (truncate(text), false)
ReturnTruncated(label, text) ==
    LET t == Truncate(text)
    IN IF t.ok THEN ToolReturn(label, t.val.body, t.val.marker, FALSE)
       ELSE Panic("truncate")

\* A line of a file: its text, whether it starts a structural item and
\* the search patterns it contains.
Line(text, structural, has) ==
    [text |-> text, structural |-> structural, has |-> has]

\* lib.rs: three short lines.  big: 4000 and 2000 characters.  wide: a line
\* whose 4993rd character is 3 bytes long.  The others hold one line.
ContentOf(path) ==
    CASE path = RepoCanonical \o <<NameSrc, NameLib>> ->
           <<Line(Ascii(12), TRUE, {}), Line(Ascii(20), FALSE, {<<"p">>, <<"q">>}),
             Line(Ascii(1), FALSE, {})>>
      [] path = RepoCanonical \o <<NameBig>> ->
           <<Line(Ascii(4000), TRUE, {<<"p">>}), Line(Ascii(2000), TRUE, {<<"p">>})>>
      [] path = RepoCanonical \o <<NameWide>> ->
           <<Line(<<<<1, 4992>>, <<3, 1>>, <<1, 10>>>>, TRUE, {})>>
      [] OTHER -> <<Line(Ascii(6), FALSE, {})>>

\* format!("{:>4} | {}", number, line) for numbers below 10000.
NumberedLine(text) == Ascii(7) \o text

\* join("\n") of the texts ts.
RECURSIVE JoinLines(_)
JoinLines(ts) ==
    IF ts = <<>> THEN <<>>
    ELSE IF Len(ts) = 1 THEN ts[1]
    ELSE ts[1] \o Ascii(1) \o JoinLines(Tail(ts))

\* The JSON input of a tool call: NoneOpt for a field that is absent (or, for
\* the line numbers, not an unsigned integer).
ToolInput(path, start_line, end_line, pattern) ==
    [path |-> path, start_line |-> start_line, end_line |-> end_line,
     pattern |-> pattern]

SaturatingSub(a, b) == IF a >= b THEN a - b ELSE 0

\* handle_read_file (lines 206-249).  read names the canonical paths whose
\* content or entries the call got from the file system.
HandleReadFileAt(repo_root, input) ==
    IF ~input.path.some
      THEN [out |-> ToolError("Missing 'path' parameter", 24), read |-> {}]
      ELSE
        LET file == SafeResolve(repo_root, input.path.val)
        IN IF ~file.ok
             THEN [out |-> ToolError(file.err, 30), read |-> {}]
           ELSE IF NodeAt(file.val).kind # "file"
             THEN [out |-> ToolError("Not a file", 12 + Len(input.path.val)),
                   read |-> {}]
           ELSE
             LET lines == ContentOf(file.val)
                 start_idx == SaturatingSub(
                     IF input.start_line.some THEN input.start_line.val ELSE 1, 1)
                 end_idx == Min(IF input.end_line.some THEN input.end_line.val
                                ELSE Len(lines), Len(lines))
             IN IF start_idx >= Len(lines)
                  THEN [out |-> ToolError("Start line exceeds file length", 40),
                        read |-> {file.val}]
                ELSE IF start_idx > end_idx
                  THEN [out |-> Panic("slice"), read |-> {file.val}]
                ELSE
                  LET r == ReturnTruncated("lines",
                             JoinLines([k \in 1..(end_idx - start_idx) |->
                                 NumberedLine(lines[start_idx + k].text)]))
                  IN [out |-> IF r.kind = "panic" THEN r
                              ELSE [r EXCEPT !.range = <<start_idx + 1, end_idx>>],
                      read |-> {file.val}]

\* The components comps written as a relative path.
RECURSIVE JoinComps(_)
JoinComps(comps) ==
    IF comps = <<>> THEN <<>>
    ELSE IF Len(comps) = 1 THEN comps[1]
    ELSE comps[1] \o Slash \o JoinComps(Tail(comps))

\* WalkDir::new(dir).max_depth(depth).follow_links(false): dir itself and
\* what lies at most depth levels below it.
Walk(dir, depth) ==
    {n \in FileTree :
       PathStartsWith(n.path, dir) /\ Len(n.path) - Len(dir) <= depth}

\* Lines 177-184: the entries list_files leaves out.
SkippedName(name) == name[1] = "." \/ name = NameTarget

\* Path::is_dir, which follows a symbolic link.
IsDirEntry(n) ==
    n.kind = "dir" \/ (n.kind = "link" /\ NodeAt(n.target).kind = "dir")

\* Path::is_file, which follows a symbolic link.
IsFileEntry(n) ==
    n.kind = "file" \/ (n.kind = "link" /\ NodeAt(n.target).kind = "file")

\* ep.strip_prefix(repo_root): the components of the absolute path ep after
\* those of repo_root as it was passed in.
StripPrefix(path, repo_root) ==
    LET ep == <<Slash>> \o path
        base == Components(repo_root)
    IN IF Len(base) <= Len(ep) /\ SubSeq(ep, 1, Len(base)) = base
         THEN Ok(SubSeq(ep, Len(base) + 1, Len(ep)))
         ELSE Err("prefix not found")

EndsWith(s, suffix) ==
    Len(suffix) <= Len(s) /\ SubSeq(s, Len(s) - Len(suffix) + 1, Len(s)) = suffix

\* pat.trim_start_matches('*')
RECURSIVE TrimStartStars(_)
TrimStartStars(s) ==
    IF Len(s) > 0 /\ s[1] = "*" THEN TrimStartStars(Tail(s)) ELSE s

RECURSIVE TotalLen(_)
TotalLen(ts) == IF ts = <<>> THEN 0 ELSE Len(ts[1]) + TotalLen(Tail(ts))

\* handle_list_files (lines 153-204)
HandleListFilesAt(repo_root, input) ==
    LET path == IF input.path.some THEN input.path.val ELSE <<".">>
        dir == SafeResolve(repo_root, path)
    IN IF ~dir.ok
         THEN [out |-> ToolError(dir.err, 30), read |-> {}]
       ELSE IF NodeAt(dir.val).kind # "dir"
         THEN [out |-> ToolError("Not a directory", 17 + Len(path)),
               read |-> {}]
       ELSE
         LET walked == Walk(dir.val, 2)
             kept == {n \in walked :
                        ~(SkippedName(n.path[Len(n.path)]) /\ n.path # dir.val)}
             rel(n) == StripPrefix(n.path, repo_root)
             listed == {n \in kept :
                          /\ rel(n).ok
                          /\ input.pattern.some =>
                               EndsWith(JoinComps(rel(n).val),
                                        TrimStartStars(input.pattern.val))}
             entries == SortedDedup(
                 {JoinComps(rel(n).val) \o (IF IsDirEntry(n) THEN Slash ELSE <<>>) :
                    n \in listed})
         IN [out |->
               IF entries = <<>>
                 THEN ToolReturn("No files found", Ascii(14), FALSE, FALSE)
                 ELSE LET r == ReturnTruncated("entries",
                                 Ascii(TotalLen(entries) + Len(entries) - 1))
                      IN IF r.kind = "panic" THEN r
                         ELSE [r EXCEPT !.entries = entries],
             read |-> {n.path : n \in walked}]

\* handle_get_file_structure (lines 323-396), for files without doc
\* comments and without leading or trailing blanks.
HandleGetFileStructureAt(repo_root, input) ==
    IF ~input.path.some
      THEN [out |-> ToolError("Missing 'path' parameter", 24), read |-> {}]
      ELSE
        LET file == SafeResolve(repo_root, input.path.val)
        IN IF ~file.ok
             THEN [out |-> ToolError(file.err, 30), read |-> {}]
           ELSE IF NodeAt(file.val).kind # "file"
             THEN [out |-> ToolError("Not a file", 12 + Len(input.path.val)),
                   read |-> {}]
           ELSE
             LET lines == ContentOf(file.val)
                 outline == SelectSeq(lines, LAMBDA l : l.structural)
             IN [out |->
                   IF outline = <<>>
                     THEN ToolReturn("No structural items found", Ascii(25),
                                     FALSE, FALSE)
                     ELSE ReturnTruncated("outline",
                            JoinLines([k \in 1..Len(outline) |->
                                NumberedLine(outline[k].text)])),
                 read |-> {file.val}]

\* The path WalkDir::new(repo_root) gives an entry, as a text.
WalkedText(repo_root, rel) == JoinPath(repo_root, JoinComps(rel))

\* handle_search_code (lines 251-321), without a file_pattern.  The order of
\* the matches is the directory order; the texts here are all of one-byte
\* characters, so only the total length matters to truncate.
HandleSearchCodeAt(repo_root, input) ==
    IF ~input.pattern.some
      THEN [out |-> ToolError("Missing 'pattern' parameter", 27), read |-> {}]
      ELSE
        LET root == Canonicalize(repo_root)
            under == IF root.ok THEN Walk(root.val, Cardinality(FileTree)) ELSE {}
            relOf(n) == SubSeq(n.path, Len(root.val) + 1, Len(n.path))
            searched == {n \in under :
                /\ IsFileEntry(n)
                /\ LET text == WalkedText(repo_root, relOf(n))
                   IN /\ FindFrom(text, Slash \o NameTarget \o Slash, 1) = 0
                      /\ FindFrom(text, Slash \o NameGit \o Slash, 1) = 0}
            contentOf(n) == ContentOf(IF n.kind = "link" THEN n.target ELSE n.path)
            hits == UNION {{<<n, k>> : k \in {j \in 1..Len(contentOf(n)) :
                               input.pattern.val \in contentOf(n)[j].has}} :
                           n \in searched}
            hitLen(h) == Len(JoinComps(relOf(h[1]))) + 4
                           + CharLen(contentOf(h[1])[h[2]].text)
            RECURSIVE SumLen(_)
            SumLen(H) == IF H = {} THEN 0
                         ELSE LET h == CHOOSE x \in H : TRUE
                              IN hitLen(h) + SumLen(H \ {h})
        IN [out |->
              IF hits = {}
                THEN ToolReturn("No matches", Ascii(17 + Len(input.pattern.val)),
                                FALSE, FALSE)
                ELSE ReturnTruncated("matches",
                       Ascii(17 + SumLen(hits) + Cardinality(hits) - 1)),
            read |-> {IF n.kind = "link" THEN n.target ELSE n.path :
                        n \in searched}]

Under(a, b) == a \o Slash \o b

UserPaths ==
    {<<".">>, <<>>, NameSrc, Under(NameSrc, NameLib),
     Slash \o Under(NameSrc, NameLib), NameSrc \o <<"\\">> \o NameLib,
     Under(DotDot, NameSecret), Under(NameSrc, Under(DotDot, Under(DotDot, NameSecret))),
     <<"a", ".", ".", "b">>, NameLink, NameBig, NameWide, <<"n", "o">>,
     Under(NameSrc, NameDeep), NameGit}

MaxLineArg == 4

PathArgs == {NoneOpt} \cup {Some(p) : p \in UserPaths}

LineArgs == {NoneOpt} \cup {Some(n) : n \in 0..MaxLineArg}

ListInputs ==
    {ToolInput(p, NoneOpt, NoneOpt, pat) :
       p \in PathArgs, pat \in {NoneOpt, Some(<<"*", ".", "r", "s">>)}}

ReadInputs ==
    {ToolInput(p, s, e, NoneOpt) :
       p \in PathArgs, s \in LineArgs, e \in LineArgs}

SearchInputs ==
    {ToolInput(NoneOpt, NoneOpt, NoneOpt, pat) :
       pat \in {NoneOpt, Some(<<"p">>), Some(<<"q">>), Some(<<"z">>)}}

StructureInputs ==
    {ToolInput(p, NoneOpt, NoneOpt, NoneOpt) : p \in PathArgs}

InitTools ==
    /\ tool_pc = "idle"
    /\ tool_call = None
    /\ tool_out = None
    /\ tool_read = {}

\* dispatch (lines 108-116) to one handler, and what came of the call.
ToolCall(tool, repo_root, input, r) ==
    /\ tool_pc' = "called"
    /\ tool_call' = [tool |-> tool, repo_root |-> repo_root, input |-> input]
    /\ tool_out' = r.out
    /\ tool_read' = r.read
    /\ UNCHANGED exceptTools

ListFilesCall ==
    /\ tool_pc = "idle"
    /\ \E repo_root \in RepoRoots, input \in ListInputs :
      ToolCall("list_files", repo_root, input,
               HandleListFilesAt(repo_root, input))

ReadFileCall ==
    /\ tool_pc = "idle"
    /\ \E repo_root \in RepoRoots, input \in ReadInputs :
      ToolCall("read_file", repo_root, input,
               HandleReadFileAt(repo_root, input))

SearchCodeCall ==
    /\ tool_pc = "idle"
    /\ \E repo_root \in RepoRoots, input \in SearchInputs :
      ToolCall("search_code", repo_root, input,
               HandleSearchCodeAt(repo_root, input))

GetFileStructureCall ==
    /\ tool_pc = "idle"
    /\ \E repo_root \in RepoRoots, input \in StructureInputs :
      ToolCall("get_file_structure", repo_root, input,
               HandleGetFileStructureAt(repo_root, input))

(***************************************************************************)
(* HttpClient::request_with_retry and handle_response (http.rs).           *)
(***************************************************************************)
MaxRetries == 3
BaseDelayMs == 1000
MaxDelayMs == 30000

\* What build().send() comes to: a transport error of some kind, or a
\* response with a status; a 200 response whose body cannot be read.
SendOutcomes ==
    {"timeout", "connect", "other_error", "200", "201", "202", "429", "404",
     "500", "200_body_error"}

Requests == {"get_text", "get_json_authed", "post_json_raw"}

\* e.is_timeout() || e.is_connect()
IsTransient(outcome) == outcome \in {"timeout", "connect"}

IsTransportError(outcome) == outcome \in {"timeout", "connect", "other_error"}

\* The delay, were it not doubled.
NextDelayFlat(delay) == Min(delay, MaxDelayMs)

\* Line 83: delay = (delay * 2).min(30_000)
NextDelay(delay) == Min(delay * 2, MaxDelayMs)

\* handle_response (lines 102-130)
HandleResponse(outcome) ==
    CASE outcome \in {"200", "201", "202"} -> Ok("body")
      [] outcome = "200_body_error" -> Err("Http")
      [] outcome = "429" -> Err("RateLimit")
      [] OTHER -> Err("Api")

InitHttp ==
    /\ http_pc = "idle"
    /\ http_attempt = 0
    /\ http_delay = 0
    /\ http_log = <<>>
    /\ http_result = None

\* Lines 76-77: a call through get_text, get_json_authed or post_json_raw.
HttpStart(request) ==
    /\ http_pc = "idle"
    /\ http_pc' = "loop"
    /\ http_attempt' = 0
    /\ http_delay' = BaseDelayMs
    /\ http_log' = <<<<"call", request>>>>
    /\ UNCHANGED http_result
    /\ UNCHANGED exceptHttp

\* Lines 79-84: the head of an iteration, with the sleep before a retry.
HttpLoopTop ==
    /\ http_pc = "loop"
    /\ http_attempt <= MaxRetries
    /\ IF http_attempt > 0
         THEN /\ http_log' = Append(http_log, <<"sleep", http_delay>>)
              /\ http_delay' = NextDelay(http_delay)
         ELSE UNCHANGED <<http_log, http_delay>>
    /\ http_pc' = "send"
    /\ UNCHANGED <<http_attempt, http_result>>
    /\ UNCHANGED exceptHttp

\* Lines 86-96: the request is sent.
HttpSend(outcome) ==
    /\ http_pc = "send"
    /\ http_log' = Append(http_log, <<"send", outcome>>)
    /\ IF ~IsTransportError(outcome)
         THEN /\ http_result' = HandleResponse(outcome)
              /\ http_pc' = "done"
              /\ UNCHANGED http_attempt
         ELSE IF IsTransient(outcome)
           THEN /\ http_attempt' = http_attempt + 1
                /\ http_pc' = "loop"
                /\ UNCHANGED http_result
           ELSE /\ http_result' = Err("Http")
                /\ http_pc' = "done"
                /\ UNCHANGED http_attempt
    /\ UNCHANGED http_delay
    /\ UNCHANGED exceptHttp

\* Line 99: the attempts are used up.
HttpGiveUp ==
    /\ http_pc = "loop"
    /\ http_attempt > MaxRetries
    /\ http_result' = Err("Http")
    /\ http_pc' = "done"
    /\ UNCHANGED <<http_attempt, http_delay, http_log>>
    /\ UNCHANGED exceptHttp

(***************************************************************************)
(* security::scan_repo (security/mod.rs) and regex_scan::scan              *)
(* (security/regex_scan.rs).  A line of a source file is its text, a       *)
(* sequence of characters, with the ids of the patterns whose regex        *)
(* matches it and of those whose suppress_if regex matches it: the         *)
(* regexes themselves are not modelled.                                    *)
(***************************************************************************)

\* enum Severity (security/mod.rs 42-49): the derived Ord is the order of
\* declaration, Critical the least and Info the greatest.
SeverityOrd(severity) ==
    CASE severity = "Critical" -> 0
      [] severity = "High" -> 1
      [] severity = "Medium" -> 2
      [] severity = "Low" -> 3
      [] severity = "Info" -> 4

\* Three entries of PATTERNS (regex_scan.rs 24-154), in the table's order;
\* every entry of the table has line_span 1.
Pattern(id, severity, line_span, has_suppress) ==
    [id |-> id, severity |-> severity, line_span |-> line_span,
     has_suppress |-> has_suppress]

Patterns ==
    <<Pattern("SOL-001", "High", 1, TRUE),
      Pattern("SOL-003", "Medium", 1, FALSE),
      Pattern("SOL-006", "Critical", 1, TRUE)>>

SourceLine(text, hits, suppress) ==
    [text |-> text, hits |-> hits, suppress |-> suppress]

\* str::trim_start on the characters in use.
RECURSIVE TrimStart(_)
TrimStart(text) ==
    IF text # <<>> /\ text[1] = " " THEN TrimStart(Tail(text)) ELSE text

StartsWith(s, prefix) ==
    Len(s) >= Len(prefix) /\ SubSeq(s, 1, Len(prefix)) = prefix

\* The test with trim_start left out.
IsCommentLineUntrimmed(text) ==
    \/ StartsWith(text, <<"/", "/">>)
    \/ StartsWith(text, <<"/", "/", "/">>)
    \/ StartsWith(text, <<"*">>)

\* regex_scan.rs 192-193
IsCommentLine(text) ==
    LET trimmed == TrimStart(text)
    IN \/ StartsWith(trimmed, <<"/", "/">>)
       \/ StartsWith(trimmed, <<"/", "/", "/">>)
       \/ StartsWith(trimmed, <<"*">>)

RawFinding(pattern_id, severity, file_path, line_number, code_snippet) ==
    [pattern_id |-> pattern_id, severity |-> severity,
     file_path |-> file_path, line_number |-> line_number,
     code_snippet |-> code_snippet]

\* regex_scan.rs 214-221: lines[start..end], each formatted as
\* "{number} | {line}" with number = start + i + 1 for the 0-based i.
Snippet(lines, line_number) ==
    LET start == SaturatingSub(line_number, 3)
        end == Min(line_number + 3, Len(lines))
    IN [k \in 1..(end - start) |->
          [number |-> start + k, text |-> lines[start + k].text]]

\* regex.is_match(&window): the window is lines[line_idx..window_end]
\* (regex_scan.rs 197-200).
WindowMatches(lines, line_idx, pattern) ==
    LET window_end == Min(line_idx + pattern.line_span, Len(lines))
    IN \E k \in (line_idx + 1)..window_end : pattern.id \in lines[k].hits

\* suppress_re.is_match(&ctx_window), lines[ctx_start..ctx_end]
\* (regex_scan.rs 205-212).
Suppressed(lines, line_idx, pattern) ==
    /\ pattern.has_suppress
    /\ LET ctx_start == SaturatingSub(line_idx, 3)
           ctx_end == Min(line_idx + 4, Len(lines))
       IN \E k \in (ctx_start + 1)..ctx_end : pattern.id \in lines[k].suppress

\* The inner loop over line_idx (regex_scan.rs 188-235), from line_idx on.
RECURSIVE ScanLines(_, _, _, _)
ScanLines(lines, file_path, pattern, line_idx) ==
    IF line_idx >= Len(lines)
      THEN <<>>
      ELSE (IF \/ IsCommentLine(lines[line_idx + 1].text)
               \/ ~WindowMatches(lines, line_idx, pattern)
               \/ Suppressed(lines, line_idx, pattern)
              THEN <<>>
              ELSE <<RawFinding(pattern.id, pattern.severity, file_path,
                                line_idx + 1, Snippet(lines, line_idx + 1))>>)
             \o ScanLines(lines, file_path, pattern, line_idx + 1)

\* The outer loop over the compiled patterns (regex_scan.rs 184-236).
RECURSIVE ScanPatterns(_, _, _)
ScanPatterns(lines, file_path, p) ==
    IF p > Len(Patterns)
      THEN <<>>
      ELSE ScanLines(lines, file_path, Patterns[p], 0)
             \o ScanPatterns(lines, file_path, p + 1)

\* regex_scan::scan (regex_scan.rs 156-239)
RegexScan(lines, file_path) == ScanPatterns(lines, file_path, 1)

\* Ord of Path: by components, a component by its bytes.
RECURSIVE CompsLess(_, _, _)
CompsLess(x, y, i) ==
    IF i > Len(x) \/ i > Len(y)
      THEN Len(x) < Len(y)
      ELSE IF x[i] = y[i]
             THEN CompsLess(x, y, i + 1)
             ELSE LexLess(x[i], y[i], 1)

PathLess(a, b) == CompsLess(Components(a), Components(b), 1)

\* The comparator of sort_by (security/mod.rs 170-175), as "a sorts
\* strictly before b".
FindingBefore(a, b) ==
    LET sa == SeverityOrd(a.severity)
        sb == SeverityOrd(b.severity)
    IN IF sa # sb
         THEN sb < sa
         ELSE IF a.file_path # b.file_path
                THEN PathLess(a.file_path, b.file_path)
                ELSE a.line_number < b.line_number

\* Vec::sort_by is stable: f goes behind every element that does not sort
\* strictly after it.
RECURSIVE InsertSorted(_, _)
InsertSorted(sorted, f) ==
    IF sorted = <<>>
      THEN <<f>>
      ELSE IF FindingBefore(f, sorted[1])
             THEN <<f>> \o sorted
             ELSE <<sorted[1]>> \o InsertSorted(Tail(sorted), f)

RECURSIVE SortFindings(_, _)
SortFindings(fs, i) ==
    IF i = 0 THEN <<>> ELSE InsertSorted(SortFindings(fs, i - 1), fs[i])

SameTriple(a, b) ==
    /\ a.file_path = b.file_path
    /\ a.line_number = b.line_number
    /\ a.pattern_id = b.pattern_id

\* Vec::dedup_by (security/mod.rs 176-178): an element equal to the one
\* kept before it is dropped.
RECURSIVE DedupBy(_, _, _)
DedupBy(fs, i, kept) ==
    IF i > Len(fs)
      THEN kept
      ELSE IF kept # <<>> /\ SameTriple(fs[i], kept[Len(kept)])
             THEN DedupBy(fs, i + 1, kept)
             ELSE DedupBy(fs, i + 1, Append(kept, fs[i]))

SourceFile(path, lines, ast) == [path |-> path, lines |-> lines, ast |-> ast]

\* The loop over rust_files (security/mod.rs 144-160): the regex findings
\* of a file, then its AST findings, Err of the AST pass being <<>>.
RECURSIVE CollectFindings(_, _)
CollectFindings(files, i) ==
    IF i > Len(files)
      THEN <<>>
      ELSE RegexScan(files[i].lines, files[i].path)
             \o [k \in 1..Len(files[i].ast) |->
                   RawFinding(files[i].ast[k][1], files[i].ast[k][2],
                              files[i].path, files[i].ast[k][3], <<>>)]
             \o CollectFindings(files, i + 1)

\* security/mod.rs 180-189
ToSecurityFinding(f, solana_project) ==
    [pattern_id |-> f.pattern_id, severity |-> f.severity,
     file_path |-> f.file_path, line_number |-> f.line_number,
     low_confidence |-> ~solana_project]

\* scan_repo (security/mod.rs 119-193) on an existing repository with the
\* given Rust files.
ScanRepo(files, solana_project) ==
    LET collected == CollectFindings(files, 1)
        sorted == SortFindings(collected, Len(collected))
        deduped == DedupBy(sorted, 1, <<>>)
    IN [k \in 1..Len(deduped) |-> ToSecurityFinding(deduped[k], solana_project)]

\* Lines: code the patterns match, the same in a comment, a doc comment and
\* the body of a block comment, a line that begins with one '/', a line no
\* pattern matches, #[account(...)] which suppresses SOL-001, and "".
LinePub == SourceLine(<<" ", "p">>, {"SOL-001"}, {})
LineSum == SourceLine(<<"a", "+", "b">>, {"SOL-003"}, {})
LineClose == SourceLine(<<"c">>, {"SOL-006", "SOL-003"}, {})
LineCommentSum == SourceLine(<<" ", "/", "/", "a", "+", "b">>, {"SOL-003"}, {})
LineDocClose == SourceLine(<<"/", "/", "/", "c">>, {"SOL-006"}, {"SOL-001"})
LineStarClose == SourceLine(<<" ", "*", "c">>, {"SOL-006"}, {})
LineSlashSum == SourceLine(<<"/", "a", "+", "b">>, {"SOL-003"}, {})
LineAttr == SourceLine(<<"#">>, {}, {"SOL-001"})
LineEmpty == SourceLine(<<>>, {}, {})

CommentLines == {LineCommentSum, LineDocClose, LineStarClose}

SourceLines ==
    {LinePub, LineSum, LineClose, LineSlashSum, LineAttr, LineEmpty}
      \cup CommentLines

MaxLines == 3

\* Files long enough for a match to have more than two lines before it.
LongContents ==
    {<<LineEmpty, LinePub, LineEmpty, LineSum>>,
     <<LineAttr, LineEmpty, LineEmpty, LineEmpty, LineClose, LineEmpty>>}

Contents == SeqsUpTo(SourceLines, MaxLines) \cup LongContents

ScanPathA == ReposSlash \o <<"r", "/", "a">>
ScanPathAX == ReposSlash \o <<"r", "/", "a", "/", "x">>
ScanPathADotX == ReposSlash \o <<"r", "/", "a", ".", "x">>

\* AST findings of a file: pattern id, severity and line.
AstLow == <<"AST-002", "Low", 1>>
AstHigh == <<"AST-003", "High", 2>>

SourceFiles ==
    {SourceFile(ScanPathA, <<LineSum, LineClose>>, <<AstLow>>),
     SourceFile(ScanPathA, <<LineCommentSum, LinePub>>, <<AstHigh, AstHigh>>),
     SourceFile(ScanPathAX, <<LinePub, LineSum>>, <<>>),
     SourceFile(ScanPathAX, <<LineClose>>, <<AstLow, AstHigh>>),
     SourceFile(ScanPathADotX, <<LineSum, LinePub, LineClose>>, <<>>),
     SourceFile(ScanPathADotX, <<LineStarClose>>, <<AstHigh>>)}

MaxScanFiles == 2

FileLists ==
    {fl \in SeqsUpTo(SourceFiles, MaxScanFiles) :
       \A i, j \in 1..Len(fl) : i # j => fl[i].path # fl[j].path}

InitScan ==
    /\ scan_pc = "idle"
    /\ scan_in = <<>>
    /\ scan_out = <<>>

\* A call of regex_scan::scan.
RegexScanCall ==
    /\ scan_pc = "idle"
    /\ \E lines \in Contents :
         /\ scan_in' = lines
         /\ scan_out' = RegexScan(lines, ScanPathA)
    /\ scan_pc' = "regex_scanned"
    /\ UNCHANGED exceptScan

\* A call of scan_repo.
ScanRepoCall ==
    /\ scan_pc = "idle"
    /\ \E files \in FileLists, solana_project \in BOOLEAN :
         /\ scan_in' = files
         /\ scan_out' = ScanRepo(files, solana_project)
    /\ scan_pc' = "repo_scanned"
    /\ UNCHANGED exceptScan

(***************************************************************************)
(* agent_review::compute_budget (security/agent_review.rs 29-35).  A       *)
(* number is kept as num / (den * sqrt(rad)); "under" tells that the f64   *)
(* is a hair under that value, which rounding in the operations that       *)
(* computed it can bring about, and which shows when the value is          *)
(* compared with or truncated at a whole number.                          *)
(***************************************************************************)
Real(num, den, rad, under) ==
    [num |-> num, den |-> den, rad |-> rad, under |-> under]

Whole(k) == Real(k, 1, 1, FALSE)

\* x < y on the values without their "under".
LessValue(x, y) ==
    (x.num * y.den) * (x.num * y.den) * y.rad
      < (y.num * x.den) * (y.num * x.den) * x.rad

\* x < y
Less(x, y) ==
    \/ LessValue(x, y)
    \/ ~LessValue(y, x) /\ x.under /\ ~y.under

RECURSIVE Gcd(_, _)
Gcd(a, b) == IF b = 0 THEN a ELSE Gcd(b, a % b)

\* m * x, in lowest terms.
Times(m, x) ==
    LET g == Gcd(m * x.num, x.den)
    IN [x EXCEPT !.num = (m * x.num) \div g, !.den = x.den \div g]

\* confidence is hundredths / 100.  No operation rounds when confidence
\* is 0, or when confidence and 1 / sqrt(repo_count) are both sums of few
\* powers of two.
ComputedExactly(hundredths, repo_count) ==
    \/ hundredths = 0
    \/ hundredths \in {25, 50, 75, 100} /\ repo_count \in {1, 4, 16, 64}

\* confidence * (1.0 / (repo_count as f64).sqrt()); rounded_down says that
\* the rounding went below.
Depth(hundredths, repo_count, rounded_down) ==
    Real(hundredths, 100, repo_count,
         rounded_down /\ ~ComputedExactly(hundredths, repo_count))

\* f64::clamp without its lower limit.
ClampNoFloor(x, lo, hi) == IF Less(hi, x) THEN hi ELSE x

\* f64::clamp
Clamp(x, lo, hi) ==
    IF Less(x, lo) THEN lo ELSE IF Less(hi, x) THEN hi ELSE x

\* `as u32` of a value of 0 to 40: the whole part.
AsU32(x) ==
    CHOOSE k \in 0..40 :
      ~Less(x, Whole(k)) /\ (k < 40 => Less(x, Whole(k + 1)))

\* compute_budget (agent_review.rs 29-35)
ComputeBudget(hundredths, repo_count, rounded_down) ==
    LET depth == Depth(hundredths, repo_count, rounded_down)
    IN [max_turns |-> AsU32(Clamp(Times(30, depth), Whole(5), Whole(40))),
        cost_limit_usd |-> Clamp(Times(20, depth), Whole(2), Whole(30))]

MaxTargets == 9

Confidences == {5 * k : k \in 0..20}
RepoCounts == (1..MaxTargets) \cup {16, 100}

InitBudget ==
    /\ budget_pc = "idle"
    /\ budget_in = <<>>
    /\ budget_out = <<>>

\* A call of compute_budget.
ComputeBudgetCall ==
    /\ budget_pc = "idle"
    /\ \E hundredths \in Confidences, repo_count \in RepoCounts,
          rounded_down \in BOOLEAN :
         /\ budget_in' = <<hundredths, repo_count>>
         /\ budget_out' = ComputeBudget(hundredths, repo_count, rounded_down)
    /\ budget_pc' = "computed"
    /\ UNCHANGED exceptBudget

(***************************************************************************)
(* The deep run from the loop over the targets to the cross-reference      *)
(* (agent/mod.rs 119-276) with scan_repo_deep (security/mod.rs 198-262).   *)
(* The static scanner's findings, the agent's findings and the             *)
(* validator's verdicts come from the environment.  A finding carries,     *)
(* for the properties only, the target it was emitted for and whether      *)
(* the agent or the static scanner reported it.                            *)
(***************************************************************************)
DeepFinding(title, severity, file_path, line_number, repo, origin) ==
    [title |-> title, severity |-> severity, description |-> <<>>,
     file_path |-> file_path, line_number |-> line_number,
     validation_status |-> "Unvalidated", validation_reasoning |-> None,
     repo |-> repo, origin |-> origin]

\* AgentFinding (agent_review.rs 38-48)
DeepAgentFinding(title, severity, affected_files) ==
    [title |-> title, severity |-> severity,
     affected_files |-> affected_files]

\* security/mod.rs 225-240
ConvertAgentFinding(af, repo) ==
    DeepFinding(af.title, af.severity,
                IF af.affected_files # <<>> THEN af.affected_files[1] ELSE <<>>,
                0, repo, "agent")

\* security/mod.rs 244-250
Dominated(found, sf) ==
    \E k \in 1..Len(found) :
      \/ Contains(ToLowercase(found[k].title), ToLowercase(sf.title))
      \/ Contains(sf.file_path, found[k].file_path)

\* security/mod.rs 242-256: the loop over static_findings from i on.
RECURSIVE IncludeStatic(_, _, _)
IncludeStatic(found, static_findings, i) ==
    IF i > Len(static_findings)
      THEN found
      ELSE LET sf == static_findings[i]
           IN IF /\ sf.severity \in {"Critical", "High"}
                 /\ ~Dominated(found, sf)
                THEN IncludeStatic(Append(found, sf), static_findings, i + 1)
                ELSE IncludeStatic(found, static_findings, i + 1)

\* The fallback, were it to keep what a successful run merges.
FallbackHighOnly(static_findings) ==
    SelectSeq(static_findings, LAMBDA sf : sf.severity \in {"Critical", "High"})

\* security/mod.rs 258-262: findings.extend(static_findings)
FallbackFindings(static_findings) == static_findings

\* scan_repo_deep (security/mod.rs 198-262); agent is what investigate
\* returned.
ScanRepoDeep(static_findings, agent, repo) ==
    IF agent.ok
      THEN IncludeStatic([k \in 1..Len(agent.val) |->
                            ConvertAgentFinding(agent.val[k], repo)],
                         static_findings, 1)
      ELSE FallbackFindings(static_findings)

\* agent/mod.rs 175-179: the index of the first narrative one of whose
\* active_repos ends in repo_name, 0 when there is none.
RECURSIVE FindNarrative(_, _, _)
FindNarrative(ns, repo_name, i) ==
    IF i > Len(ns)
      THEN 0
      ELSE IF \E k \in 1..Len(ns[i].active_repos) :
                TailOf(ns[i].active_repos[k]) = repo_name
             THEN i
             ELSE FindNarrative(ns, repo_name, i + 1)

MaxSiblings == 10

\* Iterator::take
Take(s, n) == SubSeq(s, 1, Min(n, Len(s)))

\* format!("[{}] {}", f.severity, f.title), with the finding's target.
Label(f) == [severity |-> f.severity, title |-> f.title, repo |-> f.repo]

\* agent/mod.rs 185-191
Siblings(found, n) ==
    [k \in 1..Min(MaxSiblings, Len(found)) |-> Label(found[k])]

\* agent/mod.rs 173-224: the ScanContext and the budget of a deep scan,
\* NoneOpt when no narrative lists the repo.
BuildScanContext(ns, target_count, found, repo_name, rounded_down) ==
    LET ni == FindNarrative(ns, repo_name, 1)
    IN IF ni = 0
         THEN NoneOpt
         ELSE Some([repo |-> repo_name, narrative |-> ni,
                    sibling_findings |-> Siblings(found, ns[ni]),
                    budget |-> ComputeBudget(ns[ni].confidence, target_count,
                                             rounded_down)])

ReposDir == <<"r", "e", "p", "o", "s">>
WorkDir == <<"w">>
ReposDirs == {ReposDir, WorkDir}

NarrativeQ == XNarrative(<<TargetAQ>>, 60)

DeepNarrativeLists ==
    {<<NarrativeR>>, <<NarrativeQR>>, <<NarrativeQ, NarrativeR>>}

\* What scan_repo returns for the repository at repo_path, in its order.
StaticHigh(repo_path, repo) ==
    DeepFinding(<<"b">>, "High", repo_path \o <<"/", "x">>, 3, repo, "static")
StaticMedium(repo_path, repo, line) ==
    DeepFinding(<<"c">>, "Medium", repo_path \o <<"/", "x">>, line, repo,
                "static")

StaticLists(repo_path, repo) ==
    {<<>>,
     <<StaticHigh(repo_path, repo)>>,
     <<StaticMedium(repo_path, repo, 1), StaticHigh(repo_path, repo)>>,
     [k \in 1..(MaxSiblings + 1) |-> StaticMedium(repo_path, repo, k)]}

\* What investigate returns: an error, or findings whose first affected
\* file is relative to the repository, or begins with its path, or is
\* missing.
AgentRelative == DeepAgentFinding(<<"a">>, "High", <<<<"s", "r", "c", "/", "x">>>>)
AgentNoFiles == DeepAgentFinding(<<"a">>, "Low", <<>>)
AgentAt(repo_path) ==
    DeepAgentFinding(<<"a", "b">>, "Critical", <<repo_path \o <<"/", "x">>>>)

AgentOutcomes(repo_path) ==
    {Err(TransportError), Ok(<<>>), Ok(<<AgentRelative>>),
     Ok(<<AgentNoFiles>>), Ok(<<AgentAt(repo_path)>>),
     Ok(<<AgentAt(repo_path), AgentRelative>>)}

\* What validate_findings does: it fails, or its verdicts confirm or
\* dismiss the findings titled "a".
VerdictOutcomes ==
    {NoneOpt,
     Some(<<VerdictEntry(<<"a">>, Chars("Confirmed"), "r")>>),
     Some(<<VerdictEntry(<<"a">>, Chars("dismissed"), "r")>>)}

InitDeep ==
    /\ deep_pc = "idle"
    /\ deep_dir = <<>>
    /\ deep_narratives = <<>>
    /\ deep_targets = <<>>
    /\ deep_idx = 1
    /\ deep_findings = <<>>
    /\ deep_contexts = <<>>

\* agent/mod.rs 60-117: the narratives are detected and the targets
\* selected.
DeepStart ==
    /\ deep_pc = "idle"
    /\ \E ns \in DeepNarrativeLists, repos_dir \in ReposDirs :
         /\ deep_narratives' = ns
         /\ deep_targets' = SortedDedup(ActiveRepos(ns, 1))
         /\ deep_dir' = repos_dir
    /\ deep_pc' = "targets"
    /\ UNCHANGED <<deep_idx, deep_findings, deep_contexts>>
    /\ UNCHANGED exceptDeep
    /\ UNCHANGED xrefVars

\* agent/mod.rs 120-272: one iteration of the loop over the targets.
DeepScanTarget ==
    /\ deep_pc = "targets"
    /\ deep_idx <= Len(deep_targets)
    /\ LET target == deep_targets[deep_idx]
           repo_name == TailOf(target)
           repo_path == deep_dir \o Slash \o repo_name
       IN \/ \* lines 162-170: the clone failed
             UNCHANGED <<deep_findings, deep_contexts>>
          \/ \E static_findings \in StaticLists(repo_path, repo_name),
                agent \in AgentOutcomes(repo_path),
                verdicts \in VerdictOutcomes,
                rounded_down \in BOOLEAN :
               LET scan_ctx == BuildScanContext(deep_narratives,
                                                Len(deep_targets),
                                                deep_findings, repo_name,
                                                rounded_down)
                   scanned == ScanRepoDeep(static_findings, agent, repo_name)
                   validated == IF scanned # <<>> /\ verdicts.some
                                  THEN PostProcess(scanned, verdicts.val)
                                  ELSE scanned
               IN /\ deep_contexts' =
                       IF scan_ctx.some
                         THEN Append(deep_contexts, scan_ctx.val)
                         ELSE deep_contexts
                  /\ deep_findings' = deep_findings \o validated
    /\ deep_idx' = deep_idx + 1
    /\ UNCHANGED <<deep_pc, deep_dir, deep_narratives, deep_targets>>
    /\ UNCHANGED exceptDeep
    /\ UNCHANGED xrefVars

\* agent/mod.rs 276: cross_ref::analyze(&mut narratives, &all_findings, ..)
\* is entered.
DeepCrossReference ==
    /\ deep_pc = "targets"
    /\ deep_idx > Len(deep_targets)
    /\ xr_pc = "idle"
    /\ xr_narratives' = deep_narratives
    /\ xr_findings' = deep_findings
    /\ xr_links' = <<>>
    /\ xr_ni' = 0
    /\ xr_pc' = "loop"
    /\ deep_pc' = "cross_reference"
    /\ UNCHANGED <<deep_dir, deep_narratives, deep_targets, deep_idx,
                   deep_findings, deep_contexts>>
    /\ UNCHANGED exceptDeep

(***************************************************************************)
(* A call of scan_repo_deep (security/mod.rs 198-266) by itself: what      *)
(* scan_repo and investigate returned, and what the call returns.          *)
(***************************************************************************)
DeepRepo == <<"r">>
DeepPathX == ReposSlash \o <<"r", "/", "x">>
DeepPathA == ReposSlash \o <<"r", "/", "a">>

\* Findings of the static scanner: two High ones of one title in two
\* files, Critical ones in either file, a Medium and a Low one.
DeepStaticSamples ==
    {DeepFinding(<<"b">>, "High", DeepPathX, 3, DeepRepo, "static"),
     DeepFinding(<<"b">>, "High", DeepPathA, 5, DeepRepo, "static"),
     DeepFinding(<<"c">>, "Critical", DeepPathX, 7, DeepRepo, "static"),
     DeepFinding(<<"d">>, "Critical", DeepPathA, 1, DeepRepo, "static"),
     DeepFinding(<<"c">>, "Medium", DeepPathX, 1, DeepRepo, "static"),
     DeepFinding(<<"e">>, "Low", DeepPathA, 2, DeepRepo, "static")}

MaxStatic == 2

\* The lists scan_repo can return: in the order of its sort_by.
DeepStaticLists ==
    {fs \in SeqsUpTo(DeepStaticSamples, MaxStatic) :
       \A i, j \in 1..Len(fs) : i < j => FindingBefore(fs[i], fs[j])}

AgentUpper == DeepAgentFinding(<<"B">>, "Medium", <<<<"s", "r", "c", "/", "x">>>>)

DeepAgentOutcomes ==
    AgentOutcomes(ReposSlash \o DeepRepo) \cup {Ok(<<AgentUpper>>)}

InitScanDeep ==
    /\ scan_deep_pc = "idle"
    /\ scan_deep_static = <<>>
    /\ scan_deep_agent = <<>>
    /\ scan_deep_out = <<>>

\* A call of scan_repo_deep; scan_repo(repo_path).await.unwrap_or_default()
\* makes an Err of the static scan the empty list.
ScanRepoDeepCall ==
    /\ scan_deep_pc = "idle"
    /\ \E static \in {Err(TransportError)} \cup {Ok(fs) : fs \in DeepStaticLists},
          agent \in DeepAgentOutcomes :
         LET static_findings == IF static.ok THEN static.val ELSE <<>>
         IN /\ scan_deep_static' = static_findings
            /\ scan_deep_agent' = agent
            /\ scan_deep_out' = Ok(ScanRepoDeep(static_findings, agent, DeepRepo))
    /\ scan_deep_pc' = "returned"
    /\ UNCHANGED exceptScanDeep

Init ==
    /\ InitLoop /\ InitCaller /\ InitMemory /\ InitPipeline /\ InitCrossRef
    /\ InitTools /\ InitHttp /\ InitScan /\ InitBudget /\ InitDeep
    /\ InitScanDeep

Next ==
    \/ \E cfg \in Configs : InvestigateStart(cfg)
    \/ InvLoopTop
    \/ \E r \in InvResponsesAt(turns) : InvResponse(r)
    \/ InvFailure
    \/ \E r \in SummaryResponses : InvSummaryResponse(r)
    \/ InvSummaryFailure
    \/ \E fs \in AgentFindingLists, cfg \in Configs : TestValidate(fs, cfg)
    \/ \E fs \in FindingLists, cfg \in Configs : PipelineValidate(fs, cfg)
    \/ ValLoopTop
    \/ \E r \in ValResponsesAt(turns) : ValResponse(r)
    \/ ValFailure
    \/ \E r \in ValSummaryResponses : ValSummaryResponse(r)
    \/ ValSummaryFailure
    \/ PipelineRecord

Spec == Init /\ [][Next]_vars

NextMemory == \E history \in Histories : MemoryUpdate(history)

SpecMemory == Init /\ [][NextMemory]_vars

NextPipeline ==
    \/ \E mem \in LoadedMemories, env \in RunEnvs : LoadMemory(mem, env)
    \/ \E ns \in NarrativeLists, ok \in BOOLEAN : DetectNarratives(ns, ok)
    \/ \E dir_ok \in BOOLEAN : ChooseTargets(dir_ok)
    \/ \E outcome \in ScanOutcomes : ScanTarget(outcome)
    \/ CrossReference
    \/ \E ok \in BOOLEAN : WriteReport(ok)
    \/ SaveHistory
    \/ UpdateMemory
    \/ \E ok \in BOOLEAN : SaveMemory(ok)

SpecPipeline == Init /\ [][NextPipeline]_vars

NextCrossRef ==
    \/ AnalyzeStart
    \/ \E llm_summary \in LlmSummaries : AnalyzeNarrative(llm_summary)
    \/ AnalyzeReturn

SpecCrossRef == Init /\ [][NextCrossRef]_vars

NextTools ==
    \/ ListFilesCall
    \/ ReadFileCall
    \/ SearchCodeCall
    \/ GetFileStructureCall

SpecTools == Init /\ [][NextTools]_vars

NextHttp ==
    \/ \E request \in Requests : HttpStart(request)
    \/ HttpLoopTop
    \/ \E outcome \in SendOutcomes : HttpSend(outcome)
    \/ HttpGiveUp

SpecHttp == Init /\ [][NextHttp]_vars

NextScan ==
    \/ RegexScanCall
    \/ ScanRepoCall

SpecScan == Init /\ [][NextScan]_vars

SpecBudget == Init /\ [][ComputeBudgetCall]_vars

NextDeep ==
    \/ DeepStart
    \/ DeepScanTarget
    \/ DeepCrossReference
    \/ \E llm_summary \in LlmSummaries : AnalyzeNarrative(llm_summary)
    \/ AnalyzeReturn

SpecDeep == Init /\ [][NextDeep]_vars

SpecScanDeep == Init /\ [][ScanRepoDeepCall]_vars

(***************************************************************************)
(* Properties.                                                             *)
(***************************************************************************)
IsPrefix(p, q) ==
    /\ Len(p) <= Len(q)
    /\ \A i \in 1..Len(p) : q[i] = p[i]

\* The tool uses of the Assistant message a response step appends.
AppendedToolUses == ToolUsesOf(messages'[Len(messages) + 1].content)

\* Among tool_uses[1..j], how many carry the pair of tool_uses[j].
OccurrencesUpTo(tool_uses, j) ==
    Cardinality({i \in 1..j : CallKey(tool_uses[i]) = CallKey(tool_uses[j])})

\* Some tool use of the turn brings the count of its pair to three.
BringsPairToThree(calls, tool_uses) ==
    \E j \in 1..Len(tool_uses) :
        CountOf(calls, CallKey(tool_uses[j])) + OccurrencesUpTo(tool_uses, j) >= 3

\* A step of investigate that answers a tool turn and goes round the loop.
InvToolTurnStep == fn = "investigate" /\ pc = "await" /\ pc' = "loop"

C1_Step ==
    InvToolTurnStep =>
      LET tool_uses == AppendedToolUses
          answer == messages'[Len(messages')]
      IN /\ Len(messages') = Len(messages) + 2
         /\ IsPrefix(recent_calls, recent_calls')
         /\ answer.role = "User"
         /\ Len(answer.content) = Len(tool_uses)
         /\ IF BringsPairToThree(recent_calls, tool_uses)
              THEN /\ handler_calls' = <<>>
                   /\ tool_calls' = tool_calls
                   /\ \A i \in 1..Len(tool_uses) :
                          answer.content[i]
                            = ToolResult(tool_uses[i].id, NudgeText, FALSE)
              ELSE /\ recent_calls' =
                        recent_calls
                          \o [i \in 1..Len(tool_uses) |-> CallKey(tool_uses[i])]
                   /\ tool_calls' = tool_calls + Len(tool_uses)
                   /\ \A i \in 1..Len(tool_uses) :
                          /\ answer.content[i].tool_use_id = tool_uses[i].id
                          /\ answer.content[i].content # NudgeText
                          /\ (IsObject(tool_uses[i].input)
                                /\ tool_uses[i].name \in ToolNames)
                               => \E k \in 1..Len(handler_calls') :
                                      handler_calls'[k] = HandlerCall(tool_uses[i])

\* C1: in investigate the (name, hash) pairs of the requested tool uses are
\* recorded across turns; a turn with a tool use that brings the count of
\* its pair to 3 or more dispatches no handler and appends one User message
\* with one nudge ToolResult per tool use, and the loop goes on; any other
\* tool turn is executed.
C1_StuckLoopNudge == [][C1_Step]_vars

\* The same call in three turns in a row: two dispatched, the third nudged.
C1_Witness ==
    /\ fn = "investigate"
    /\ pc = "loop"
    /\ turns = 3
    /\ tool_calls = 2
    /\ Len(recent_calls) = 3
    /\ recent_calls[1] = recent_calls[2]
    /\ recent_calls[2] = recent_calls[3]
    /\ handler_calls = <<>>
    /\ messages[Len(messages)].content[1].content = NudgeText

\* The turn cap of the running loop.
TurnCap ==
    IF fn = "investigate" THEN config.max_turns ELSE Min(config.max_turns, 15)

Running == pc \in {"loop", "await", "await_summary"}

C2_Bounded ==
    fn # None =>
      /\ loop_calls <= TurnCap
      /\ converse_calls <= TurnCap + 1
      /\ converse_calls <= loop_calls + 1
      /\ pc = "await" =>
           /\ turns < TurnCap
           /\ total_cost_usd < config.cost_limit_usd

\* The number of steps the running loop can still take at most.
Rank ==
    CASE pc = "loop" -> 2 * (TurnCap - turns) + 3
      [] pc = "await" -> 2 * (TurnCap - turns) + 2
      [] pc = "await_summary" -> 1
      [] OTHER -> 0

C2_RankStep == Running => (Rank' < Rank /\ Rank' >= 0)

\* C2: whatever the LLM answers and whichever calls fail, the three loops
\* end (every step of a running loop lowers a natural-number rank); the main
\* loop issues no converse call once turns has reached the turn cap or the
\* cost has reached cost_limit_usd, so there are at most turn cap + 1
\* converse calls.
C2_Terminates == []C2_Bounded /\ [][C2_RankStep]_vars

\* A validator run capped at 15 turns although max_turns is larger, with
\* the forced summary as the sixteenth call.
C2_Witness ==
    /\ fn = "validate_findings"
    /\ pc = "done"
    /\ config.max_turns > ValidatorTurnCap
    /\ loop_calls = ValidatorTurnCap
    /\ converse_calls = ValidatorTurnCap + 1

\* C3: investigate with max_turns = 0 makes no converse call and returns
\* zero findings.
C3_ZeroTurnsNoCall ==
    (fn = "investigate" /\ config.max_turns = 0) =>
      /\ converse_calls = 0
      /\ pc = "done" => result = Ok(<<>>)

\* C4: in the investigator and in both validator loops no handler is
\* invoked with an input that is not a JSON object.
C4_NoNonObjectHandlerCall ==
    \A k \in 1..Len(handler_calls) : IsObject(handler_calls[k].input)

Returned == pc \in {"done", "recorded"}

\* C5: whenever validate_findings returns Ok, no finding left in the
\* caller's list is Dismissed, whatever verdicts the LLM produced.
C5_NoDismissedLeft ==
    (fn = "validate_findings" /\ Returned /\ result.ok) =>
      \A i \in 1..Len(findings) : findings[i].validation_status # "Dismissed"

\* A Dismissed finding was dropped from the list.
C5_Witness ==
    /\ fn = "validate_findings"
    /\ Returned
    /\ result.ok
    /\ Len(findings) < Len(findings_in)

Ladder == <<"Critical", "High", "Medium", "Low", "Info">>

\* One step down the ladder, Info staying Info.
StepDown(severity) ==
    LET i == CHOOSE k \in 1..Len(Ladder) : Ladder[k] = severity
    IN Ladder[Min(i + 1, Len(Ladder))]

OnLadder(severity) == \E k \in 1..Len(Ladder) : Ladder[k] = severity

\* The input finding a surviving finding came from (descriptions are
\* distinct within a list and never rewritten).
InputOf(f) ==
    findings_in[CHOOSE k \in 1..Len(findings_in) :
                    findings_in[k].description = f.description]

LastOf(q) == q[Len(q)]

\* What the pipeline is to hold after a failed validator pass.
KeptUnvalidated ==
    /\ all_findings = findings_in
    /\ \A i \in 1..Len(all_findings) :
           all_findings[i].validation_status = "Unvalidated"
    /\ LastOf(repo_results).findings_count = Len(findings_in)
    /\ LastOf(repo_results).errors # <<>>

\* C7 as stated: whenever a converse call of the validator pass failed, the
\* pipeline keeps the findings as they were and records a validation error.
C7_AnyTransportFailure ==
    (caller = "pipeline" /\ pc = "recorded" /\ failed_calls > 0)
      => KeptUnvalidated

\* C7: validate_findings returns an error exactly when its first converse
\* call fails; the pipeline then keeps the repo's findings as they were
\* (all Unvalidated, none removed, no severity changed) and records a
\* validation error in the repo's RunHistory errors.  A pass that returns Ok
\* records no error.
C7_FirstCallFailure ==
    /\ (fn = "validate_findings" /\ Returned) =>
         (~result.ok <=> (failed_calls = 1 /\ loop_calls = 1 /\ turns = 0))
    /\ (caller = "pipeline" /\ pc = "recorded") =>
         IF result.ok
           THEN LastOf(repo_results).errors = <<>>
           ELSE /\ KeptUnvalidated
                /\ LastOf(repo_results).errors
                     = <<"validation: transport failure">>

C7_Witness ==
    /\ caller = "pipeline"
    /\ pc = "recorded"
    /\ ~result.ok
    /\ Len(all_findings) = 2
    /\ LastOf(repo_results).errors # <<>>

HasToolResult(content) ==
    \E k \in 1..Len(content) : content[k].type = "ToolResult"

C9_Step ==
    (fn = "investigate" /\ fn' = "investigate") =>
      /\ IsPrefix(messages, messages')
      /\ InvToolTurnStep =>
           /\ Len(messages') = Len(messages) + 2
           /\ messages'[Len(messages) + 1].role = "Assistant"
           /\ messages'[Len(messages) + 2].role = "User"
           /\ HasToolResult(messages'[Len(messages) + 2].content)

C9_Order ==
    fn = "investigate" =>
      \A i \in 1..Len(messages) :
        (messages[i].role = "User" /\ HasToolResult(messages[i].content))
          => /\ i > 1
             /\ messages[i - 1].role = "Assistant"
             /\ ToolUsesOf(messages[i - 1].content) # <<>>

\* C9: within one investigation the message history only grows by
\* appending (earlier messages keep content and position), and the
\* Assistant message of a turn is appended before the User message with that
\* turn's tool results.
C9_AppendOnly == [][C9_Step]_vars /\ []C9_Order

\* Two tool turns: User, Assistant, User(results), Assistant, User(results).
C9_Witness ==
    /\ fn = "investigate"
    /\ pc = "loop"
    /\ Len(messages) = 5
    /\ messages[2].role = "Assistant"
    /\ HasToolResult(messages[3].content)
    /\ messages[4].role = "Assistant"
    /\ HasToolResult(messages[5].content)

\* C10 as stated: a repo with a non-empty errors list in three successive
\* update_from_run calls, whatever the error strings, is in repo_blocklist.
C10_ThreeFailingRuns ==
    \A n \in RepoNames :
        fail_streak[n] >= 3 => BlocklistContains(run_memory.repo_blocklist, n)

\* C10: from empty RunMemory, a repo that appears with the same error
\* string in three successive update_from_run calls is in repo_blocklist
\* after the third call.
C10_ThreeRunsSameError ==
    \A n \in RepoNames, e \in ErrorTexts :
        same_streak[<<n, e>>] >= 3
          => BlocklistContains(run_memory.repo_blocklist, n)

C10_Witness ==
    /\ run_memory.total_runs = 3
    /\ \E n \in RepoNames, e \in ErrorTexts :
           /\ same_streak[<<n, e>>] = 3
           /\ run_memory.repo_blocklist = <<n>>

\* C11 as stated: a repo in repo_blocklist has failed in at least 3 runs.
C11_AtLeastThreeRuns ==
    \A n \in RepoNames :
        BlocklistContains(run_memory.repo_blocklist, n) => fail_runs[n] >= 3

C11_Step ==
    \A n \in RepoNames :
        (/\ ~BlocklistContains(run_memory.repo_blocklist, n)
         /\ BlocklistContains(run_memory'.repo_blocklist, n))
          => \E e \in ErrorTexts :
                 /\ fail_records'[<<n, e>>] >= 3
                 /\ fail_records'[<<n, e>>] > fail_records[<<n, e>>]

\* C11: a repo is appended to repo_blocklist only when a run brings the
\* number of error records with one same error text for that repo name to 3
\* or more; a repo with fewer than 3 such records, and so a repo that never
\* failed, is not in the blocklist.  The records need not come from 3 runs.
C11_AtLeastThreeRecords ==
    /\ [][C11_Step]_vars
    /\ [](\A n \in RepoNames :
             BlocklistContains(run_memory.repo_blocklist, n)
               => /\ fail_runs[n] >= 1
                  /\ \E e \in ErrorTexts : fail_records[<<n, e>>] >= 3)

\* A repo blocklisted after failing in two runs only.
C11_Witness ==
    \E n \in RepoNames :
        /\ BlocklistContains(run_memory.repo_blocklist, n)
        /\ fail_runs[n] = 2
        /\ \E e \in ErrorTexts : fail_records[<<n, e>>] = 3

\* C12: after any sequence of update_from_run calls from the default
\* RunMemory no repo name is in repo_blocklist more than once, however many
\* failing runs follow the blocklisting.
C12_NoDuplicates ==
    \A i \in 1..Len(run_memory.repo_blocklist) :
        \A j \in 1..Len(run_memory.repo_blocklist) :
            run_memory.repo_blocklist[i] = run_memory.repo_blocklist[j] => i = j

\* The repo went on failing after it was blocklisted.
C12_Witness ==
    \E n \in RepoNames, e \in ErrorTexts :
        /\ run_memory.repo_blocklist = <<n>>
        /\ run_memory.total_runs = 3
        /\ fail_runs[n] = 3
        /\ fail_records[<<n, e>>] >= 5

\* Whether the key starts with the repo name and the colon.
KeyOfRepo(key, name) ==
    /\ Len(key) > Len(name)
    /\ SubSeq(key, 1, Len(name) + 1) = name \o <<":">>

\* C13: after any sequence of update_from_run calls from the default
\* RunMemory every repo in repo_blocklist has an entry of its own in
\* error_memory with count >= 3.
C13_BlocklistedHasRecords ==
    \A i \in 1..Len(run_memory.repo_blocklist) :
        \E key \in DOMAIN run_memory.error_memory :
            /\ KeyOfRepo(key, run_memory.repo_blocklist[i])
            /\ run_memory.error_memory[key] >= 3

\* A blocklisted repo with one entry at the threshold and another below it.
C13_Witness ==
    \E n \in RepoNames :
        /\ run_memory.repo_blocklist = <<n>>
        /\ ErrorCount(run_memory.error_memory, FormatKey(n, CloneFailed)) = 3
        /\ ErrorCount(run_memory.error_memory, FormatKey(n, Timeout)) \in {1, 2}

\* The targets of the run have been chosen.
Selected == run_pc \notin {"start", "narratives", "no_narratives", "select"}

\* C14: a target whose tail is an entry of the loaded repo_blocklist is
\* removed before scanning: in that run it is not cloned, not scanned and
\* gets no RepoResult, whether it came from a narrative's active_repos or
\* from always_scan; the other active repos stay targets.
C14_BlocklistedSkipped ==
    Selected =>
      /\ \A k \in 1..Len(loaded_memory.repo_blocklist) :
           LET b == loaded_memory.repo_blocklist[k]
           IN /\ \A i \in 1..Len(targets) : TailOf(targets[i]) # b
              /\ \A i \in 1..Len(attempted) : TailOf(attempted[i]) # b
              /\ \A i \in 1..Len(run_history) : run_history[i].name # b
      /\ \A t \in ActiveRepos(narratives, 1) :
           (\A k \in 1..Len(loaded_memory.repo_blocklist) :
                loaded_memory.repo_blocklist[k] # TailOf(t))
             => \E i \in 1..Len(targets) : targets[i] = t

\* r (from a narrative) and q (from always_scan) are blocklisted and only
\* s was scanned.
C14_Witness ==
    /\ run_pc = "complete"
    /\ loaded_memory.repo_blocklist = <<<<"q">>, <<"r">>>>
    /\ narratives = <<Narrative(<<TargetAR>>)>>
    /\ run_env.always_scan = <<BareQ, BareS>>
    /\ targets = <<BareS>>
    /\ attempted = <<BareS>>
    /\ Len(run_history) = 1

CountOfEvent(e) == Cardinality({i \in 1..Len(events) : events[i] = e})

C15_State ==
    /\ CountOfEvent("load") <= 1
    /\ CountOfEvent("update") <= 1
    /\ run_pc \in {"narratives", "select", "scan", "cross_ref", "report",
                   "history", "update"}
         => run_memory = loaded_memory
    /\ Selected =>
         targets = SelectTargets(narratives, run_env, loaded_memory.repo_blocklist)
    /\ run_pc = "complete" =>
         /\ SubSeq(events, 1, 4) = <<"load", "report", "history", "update">>
         /\ Len(events) = 5
         /\ events[5] \in {"save", "save_failed"}
         /\ run_memory.total_runs = loaded_memory.total_runs + 1

C15_Step ==
    run_memory' # run_memory => run_pc \in {"start", "update"}

\* C15: in a completed run RunMemory is loaded once before target
\* selection, is not modified while targets are scanned, and update_from_run
\* is applied exactly once, after the report is written and before the
\* memory is saved.
C15_MemoryLifecycle == []C15_State /\ [][C15_Step]_vars

C15_Witness ==
    /\ run_pc = "complete"
    /\ events = <<"load", "report", "history", "update", "save">>
    /\ Len(run_history) >= 2
    /\ loaded_memory.repo_blocklist # <<>>
    /\ run_memory # loaded_memory

\* C16: a clone, scan or validation failure of a target does not abort the
\* run: once a target was started, the run is either still scanning or every
\* target has its RepoResult.
C16_FailuresDoNotAbort ==
    (Selected /\ attempted # <<>>) =>
      \/ run_pc = "scan"
      \/ Len(run_history) = Len(targets)

\* The narratives analyze has finished with, and what it was given.
ProcessedNarratives == 1..xr_ni

ListedTails(n) ==
    {TailOf(xr_narratives[n].active_repos[k]) :
       k \in 1..Len(xr_narratives[n].active_repos)}

\* C17: analyze links a finding to a narrative (a link, or its index in the
\* narrative's repo_findings) only if the repo name derived from the
\* finding's file_path equals the tail of an entry of the narrative's
\* active_repos, and the link and the entry carry that name.
C17_LinkedOnlyIfListed ==
    /\ \A k \in 1..Len(xr_links) :
         LET l == xr_links[k]
         IN /\ l.repo = RepoNameFromPath(xr_findings[l.finding_idx + 1].file_path)
            /\ l.repo \in ListedTails(l.narrative_idx + 1)
    /\ \A n \in ProcessedNarratives :
         \A j \in 1..Len(xr_narratives[n].repo_findings) :
           LET e == xr_narratives[n].repo_findings[j]
           IN /\ e[1] \in ListedTails(n)
              /\ \A k \in 1..Len(e[2]) :
                   RepoNameFromPath(xr_findings[e[2][k] + 1].file_path) = e[1]

\* Of a finding under t/repos/q and one under /r, a narrative listing a/q
\* and a/r gets the first only.
C17_Witness ==
    /\ xr_pc = "done"
    /\ Len(xr_narratives) = 1
    /\ xr_narratives[1].active_repos = <<TargetAQ, TargetAR>>
    /\ xr_findings = <<XFinding(PathReposQ, "High", "Unvalidated"),
                       XFinding(PathRootR, "High", "Confirmed")>>
    /\ xr_narratives[1].repo_findings = <<<<<<"q">>, <<0>>>>>>
    /\ Len(xr_links) = 1
    /\ xr_links[1].finding_idx = 0
    /\ xr_links[1].repo = <<"q">>

\* The places of narrative n's repo_findings that hold finding index fi.
PlacesOf(n, fi) ==
    {p \in (1..Len(xr_narratives[n].repo_findings)) \X (1..Len(xr_findings)) :
       /\ p[2] <= Len(xr_narratives[n].repo_findings[p[1]][2])
       /\ xr_narratives[n].repo_findings[p[1]][2][p[2]] = fi}

LinksOf(n, fi) ==
    {k \in 1..Len(xr_links) :
       xr_links[k].narrative_idx = n - 1 /\ xr_links[k].finding_idx = fi}

FindingIndices == 0..(Len(xr_findings) - 1)

\* C18: for every narrative, each linked finding index is in exactly one
\* entry of repo_findings and there once, finding_count is the number of
\* indices in repo_findings, and each such index has exactly one link, whose
\* repo is the entry's; no repo has two entries.
C18_EachIndexOnce ==
    \A n \in ProcessedNarratives :
      LET rf == xr_narratives[n].repo_findings
      IN /\ \A fi \in FindingIndices :
              /\ Cardinality(PlacesOf(n, fi)) <= 1
              /\ Cardinality(LinksOf(n, fi)) = Cardinality(PlacesOf(n, fi))
              /\ \A k \in LinksOf(n, fi) : \A p \in PlacesOf(n, fi) :
                   xr_links[k].repo = rf[p[1]][1]
         /\ xr_narratives[n].finding_count =
              Cardinality(UNION {PlacesOf(n, fi) : fi \in FindingIndices})
         /\ \A i, j \in 1..Len(rf) : rf[i][1] = rf[j][1] => i = j

\* Two findings of repo r and a narrative that lists r twice (a/r and b/r).
C18_Witness ==
    /\ xr_pc = "done"
    /\ Len(xr_narratives) = 1
    /\ xr_narratives[1].active_repos = <<TargetAR, TargetBR>>
    /\ xr_narratives[1].repo_findings = <<<<<<"r">>, <<0, 1>>>>>>
    /\ xr_narratives[1].finding_count = 2
    /\ Len(xr_links) = 2

C19_Weights == [Critical |-> 20, High |-> 10, Medium |-> 4, Low |-> 1]

C19_Multipliers == [Confirmed |-> 10, Disputed |-> 5, Unvalidated |-> 7,
                    Dismissed |-> 0]

\* The term of finding i (counted from 1) in narrative n's score, in units
\* of 1/2000.
C19_Term(n, i) ==
    LET f == xr_findings[i]
    IN IF RepoNameFromPath(f.file_path) \in ListedTails(n)
         THEN (IF f.severity \in DOMAIN C19_Weights
                 THEN C19_Weights[f.severity] ELSE 0)
              * C19_Multipliers[f.validation_status]
              * xr_narratives[n].confidence
         ELSE 0

RECURSIVE C19_Sum(_, _)
C19_Sum(n, i) ==
    IF i > Len(xr_findings) THEN 0 ELSE C19_Term(n, i) + C19_Sum(n, i + 1)

\* C19: each narrative's risk_score is the sum over its matched findings of
\* severity weight (Critical 10, High 5, Medium 2, Low 0.5, else 0) times
\* validation multiplier (Confirmed 1.0, Disputed 0.5, Unvalidated 0.7,
\* Dismissed 0.0) times the narrative's confidence.
C19_RiskScoreIsSum ==
    \A n \in ProcessedNarratives : xr_narratives[n].risk_score = C19_Sum(n, 1)

\* Two Disputed Medium findings at confidence 0.85 give 1.7, and one
\* Confirmed Critical at confidence 0.8 gives 8.0.
C19_Witness ==
    /\ xr_pc = "done"
    /\ Len(xr_narratives) = 2
    /\ xr_narratives[1].confidence = 85
    /\ xr_findings = <<XFinding(PathReposR, "Medium", "Disputed"),
                       XFinding(PathReposR, "Medium", "Disputed")>>
    /\ xr_narratives[1].risk_score = 3400
    /\ xr_narratives[2].active_repos = <<BareS>>
    /\ xr_narratives[2].risk_score = 0

C19_WitnessCritical ==
    /\ xr_pc = "done"
    /\ Len(xr_narratives) = 1
    /\ xr_narratives[1].confidence = 80
    /\ xr_findings = <<XFinding(PathReposR, "Critical", "Confirmed")>>
    /\ xr_narratives[1].risk_score = 16000

\* The table of risk levels, with both ends of every range.
C20_Level(score) ==
    CASE score >= 40000 -> "Critical"
      [] score >= 20000 /\ score < 40000 -> "High"
      [] score >= 10000 /\ score < 20000 -> "Medium"
      [] score >= 2000 /\ score < 10000 -> "Low"
      [] OTHER -> "None"

\* C20: risk_level is Critical for a score of 20 or more, High from 10 to
\* below 20, Medium from 5 to below 10, Low from 1 to below 5 and None
\* otherwise, for every narrative after analyze.
C20_LevelFromScore ==
    \A n \in ProcessedNarratives :
      xr_narratives[n].risk_level = C20_Level(xr_narratives[n].risk_score)

\* Scores of exactly 10 and exactly 1: High and Low.
C20_Witness ==
    /\ xr_pc = "done"
    /\ Len(xr_narratives) = 2
    /\ xr_narratives[1].risk_score = 20000
    /\ xr_narratives[1].risk_level = "High"
    /\ xr_narratives[2].risk_score = 2000
    /\ xr_narratives[2].risk_level = "Low"

\* The path a handler resolves: the "path" of the input, "." when
\* list_files gets none.
GivenPath ==
    IF tool_call.input.path.some THEN tool_call.input.path.val
    ELSE IF tool_call.tool = "list_files" THEN <<".">> ELSE <<>>

HasDotDot(s) == \E k \in 1..(Len(s) - 1) : s[k] = "." /\ s[k + 1] = "."

InsideRepo(path) ==
    /\ Len(path) >= Len(RepoCanonical)
    /\ \A k \in 1..Len(RepoCanonical) : path[k] = RepoCanonical[k]

\* C21: for list_files, read_file and get_file_structure a path containing
\* ".." gives an is_error=true result, and whatever the path, nothing outside
\* the canonical repository root is read or listed.
C21_NoTraversal ==
    (tool_pc = "called"
       /\ tool_call.tool \in {"list_files", "read_file", "get_file_structure"})
      => /\ HasDotDot(GivenPath) =>
              tool_out.kind = "returned" /\ tool_out.is_error /\ tool_read = {}
         /\ \A p \in tool_read : InsideRepo(p)
         /\ (tool_out.kind = "returned" /\ ~tool_out.is_error) => tool_read # {}

\* read_file of lnk, a link inside the repository to a file outside it, is
\* refused and nothing is read.
C21_Witness ==
    /\ tool_pc = "called"
    /\ tool_call.tool = "read_file"
    /\ tool_call.input.path = Some(NameLink)
    /\ tool_out.kind = "returned"
    /\ tool_out.is_error
    /\ tool_out.label = "Path resolves outside repository"
    /\ tool_read = {}

\* C22: read_file comes back with a result for every start_line and
\* end_line; it never panics on the range.
C22_ReadFileReturns ==
    (tool_pc = "called" /\ tool_call.tool = "read_file")
      => ~(tool_out.kind = "panic" /\ tool_out.at = "slice")

\* C23: list_files of "." without a pattern, for a relative or an absolute
\* repository root, lists src/ among its entries.
C23_ListsSrc ==
    (tool_pc = "called" /\ tool_call.tool = "list_files"
       /\ GivenPath = <<".">> /\ ~tool_call.input.pattern.some)
      => /\ tool_out.kind = "returned"
         /\ \E k \in 1..Len(tool_out.entries) :
              tool_out.entries[k] = NameSrc \o Slash

\* C24: every tool call returns a text of at most 5000 characters before
\* the marker, and the marker is there exactly when the text was cut.
C24_Truncated ==
    tool_pc = "called"
      => /\ ~(tool_out.kind = "panic" /\ tool_out.at = "truncate")
         /\ tool_out.kind = "returned" =>
              /\ CharLen(tool_out.body) <= MaxResultChars
              /\ tool_out.marker => ByteLen(tool_out.body) = MaxResultChars

Sends == SelectSeq(http_log, LAMBDA e : e[1] = "send")
Sleeps == SelectSeq(http_log, LAMBDA e : e[1] = "sleep")

\* What the call returns for the outcome of its last send.
C25_ResultFor(outcome) ==
    CASE outcome \in {"200", "201", "202"} -> [ok |-> TRUE, val |-> "body"]
      [] outcome = "429" -> [ok |-> FALSE, err |-> "RateLimit"]
      [] outcome \in {"404", "500"} -> [ok |-> FALSE, err |-> "Api"]
      [] OTHER -> [ok |-> FALSE, err |-> "Http"]

\* C25: at most 4 sends; every send but the first directly follows a sleep,
\* the sleeps are 1 s, 2 s and 4 s in this order, and follow a send that
\* ended in a timeout or connect error; a response of any status and any
\* other transport error end the call at once.
C25_RetryDiscipline ==
    /\ Len(Sends) <= MaxRetries + 1
    /\ \A k \in 1..Len(Sleeps) : Sleeps[k][2] = <<1000, 2000, 4000>>[k]
    /\ \A k \in 2..Len(http_log) :
         /\ http_log[k][1] = "sleep" =>
              http_log[k - 1] \in {<<"send", "timeout">>, <<"send", "connect">>}
         /\ http_log[k][1] = "send" =>
              http_log[k - 1][1] \in {"call", "sleep"}
         /\ (http_log[k][1] = "send" /\ k > 2) => http_log[k - 1][1] = "sleep"
    /\ \A k \in 1..Len(Sends) :
         Sends[k][2] \notin {"timeout", "connect"} =>
           /\ k = Len(Sends)
           /\ http_pc = "done"
           /\ http_result = C25_ResultFor(Sends[k][2])
    /\ http_pc = "done" =>
         \/ Sends[Len(Sends)][2] \notin {"timeout", "connect"}
         \/ Len(Sends) = MaxRetries + 1 /\ http_result = C25_ResultFor("timeout")

\* Four sends with the three sleeps between them, then an error.
C25_Witness ==
    /\ http_pc = "done"
    /\ Len(Sends) = 4
    /\ Sleeps = <<<<"sleep", 1000>>, <<"sleep", 2000>>, <<"sleep", 4000>>>>
    /\ http_result.ok = FALSE

\* The place of a severity in the list Critical, High, Medium, Low, Info.
SeverityPlace(severity) ==
    CHOOSE k \in 1..5 :
      <<"Critical", "High", "Medium", "Low", "Info">>[k] = severity

\* C26: the findings scan_repo returns are in the order Critical, High,
\* Medium, Low, Info; findings of one severity are in rising order of
\* file_path, and those of one file in rising order of line_number.
C26_CriticalFirst ==
    scan_pc = "repo_scanned" =>
      \A i, j \in 1..Len(scan_out) :
        i < j =>
          LET a == scan_out[i]
              b == scan_out[j]
          IN /\ SeverityPlace(a.severity) <= SeverityPlace(b.severity)
             /\ a.severity = b.severity =>
                   /\ ~PathLess(b.file_path, a.file_path)
                   /\ a.file_path = b.file_path =>
                         a.line_number <= b.line_number

\* The text begins, after its leading blanks, with "//" (so also with
\* "///") or with "*".
BeginsAsComment(text) ==
    \E n \in 0..Len(text) :
      /\ \A k \in 1..n : text[k] = " "
      /\ \/ n + 1 <= Len(text) /\ text[n + 1] = "*"
         \/ n + 2 <= Len(text) /\ text[n + 1] = "/" /\ text[n + 2] = "/"

\* C27: regex_scan::scan returns no finding on a line that begins as a
\* comment, and no finding at all for a file of such lines only or of no
\* line; every finding is on a line of the file its pattern matches.
C27_NoCommentFindings ==
    scan_pc = "regex_scanned" =>
      /\ \A k \in 1..Len(scan_out) :
            /\ scan_out[k].line_number \in 1..Len(scan_in)
            /\ ~BeginsAsComment(scan_in[scan_out[k].line_number].text)
            /\ scan_out[k].pattern_id
                  \in scan_in[scan_out[k].line_number].hits
      /\ (\A n \in 1..Len(scan_in) : BeginsAsComment(scan_in[n].text))
            => scan_out = <<>>

\* A comment line that a pattern matches, before a code line with a
\* finding.
C27_Witness ==
    /\ scan_pc = "regex_scanned"
    /\ Len(scan_in) = 2
    /\ scan_in[1] = LineCommentSum
    /\ Len(scan_out) = 1
    /\ scan_out[1].line_number = 2

\* x = y
SameReal(x, y) == ~LessValue(x, y) /\ ~LessValue(y, x)

C29_Term(n, i) ==
    LET f == xr_findings[i]
    IN IF f.repo \in ListedTails(n)
         THEN (IF f.severity \in DOMAIN C19_Weights
                 THEN C19_Weights[f.severity] ELSE 0)
              * C19_Multipliers[f.validation_status]
              * xr_narratives[n].confidence
         ELSE 0

RECURSIVE C29_Sum(_, _)
C29_Sum(n, i) ==
    IF i > Len(xr_findings) THEN 0 ELSE C29_Term(n, i) + C29_Sum(n, i + 1)

\* output/mod.rs 259-262: the finding indices some narrative links.
LinkedIndices ==
    {fi \in FindingIndices :
       \E n \in 1..Len(xr_narratives) : PlacesOf(n, fi) # {}}

\* C29: after the cross-reference of a deep run, every finding emitted for
\* a target whose tail a narrative lists, an agent finding as well as a
\* static one, is in that narrative's repo_findings, counts in its
\* risk_score, and is no orphan.
C29_EmittedAreMatched ==
    (deep_pc = "cross_reference" /\ xr_pc = "done") =>
      \A n \in 1..Len(xr_narratives) :
        /\ \A i \in 1..Len(xr_findings) :
              xr_findings[i].repo \in ListedTails(n) =>
                /\ PlacesOf(n, i - 1) # {}
                /\ i - 1 \in LinkedIndices
        /\ xr_narratives[n].risk_score = C29_Sum(n, 1)

\* C30: a ScanContext built for a repo of narrative N holds at most 10
\* sibling labels, each of a finding of another, earlier scanned repo that
\* narrative N lists.
C30_SiblingsOfSameNarrative ==
    \A c \in 1..Len(deep_contexts) :
      LET ctx == deep_contexts[c]
          n == deep_narratives[ctx.narrative]
      IN /\ Len(ctx.sibling_findings) <= 10
         /\ \A k \in 1..Len(ctx.sibling_findings) :
              /\ ctx.sibling_findings[k].repo # ctx.repo
              /\ IsMatched(RepoTails(n.active_repos),
                           ctx.sibling_findings[k].repo)

\* A converted agent finding dominates a static one.
AgentDominates(af, sf) ==
    \/ Contains(ToLowercase(af.title), ToLowercase(sf.title))
    \/ Contains(sf.file_path, af.file_path)

\* C31: when investigate succeeded, scan_repo_deep returns the converted
\* agent findings and then, in their order, exactly the static findings
\* that are Critical or High and that no agent finding dominates.
C31_MergeAgainstAgentOnly ==
    (scan_deep_pc = "returned" /\ scan_deep_agent.ok) =>
      LET converted == [k \in 1..Len(scan_deep_agent.val) |->
                          ConvertAgentFinding(scan_deep_agent.val[k], DeepRepo)]
          Included(sf) ==
            /\ sf.severity \in {"Critical", "High"}
            /\ \A k \in 1..Len(converted) : ~AgentDominates(converted[k], sf)
      IN /\ scan_deep_out.ok
         /\ scan_deep_out.val = converted \o SelectSeq(scan_deep_static, Included)

\* C38: when investigate failed, scan_repo_deep returns Ok with the static
\* findings of every severity, unchanged and in their order.
C38_FallbackKeepsAll ==
    (scan_deep_pc = "returned" /\ ~scan_deep_agent.ok) =>
      /\ scan_deep_out.ok
      /\ scan_deep_out.val = scan_deep_static

\* A failed investigation after a static scan with a Low and a High
\* finding.
C38_Witness ==
    /\ scan_deep_pc = "returned"
    /\ ~scan_deep_agent.ok
    /\ Len(scan_deep_static) = 2
    /\ scan_deep_static[1].severity = "Low"
    /\ scan_deep_static[2].severity = "High"
    /\ scan_deep_out.val = scan_deep_static

\* The tool uses of the Assistant messages among the first k messages, in
\* order.
RECURSIVE RequestedUpTo(_)
RequestedUpTo(k) ==
    IF k = 0
      THEN <<>>
      ELSE RequestedUpTo(k - 1)
             \o (IF messages[k].role = "Assistant"
                   THEN ToolUsesOf(messages[k].content)
                   ELSE <<>>)

\* Message k holds a tool use whose name and input have then been requested
\* three times or more.
ThirdRequestAt(k) ==
    LET asked == RequestedUpTo(k)
        keys == [i \in 1..Len(asked) |-> CallKey(asked[i])]
    IN \E i \in 1..Len(ToolUsesOf(messages[k].content)) :
         CountOf(keys, CallKey(ToolUsesOf(messages[k].content)[i])) >= 3

\* Every reply to such a message is the nudge, one per tool use.
ThirdRequestNudged ==
    \A k \in 2..Len(messages) :
      (/\ messages[k].role = "User"
       /\ messages[k - 1].role = "Assistant"
       /\ messages[k].content # <<>>
       /\ messages[k].content[1].type = "ToolResult"
       /\ ThirdRequestAt(k - 1))
        => messages[k].content = NudgeResults(ToolUsesOf(messages[k - 1].content))

\* C32: in the validator's loop a tool requested with the same input for
\* the third time is not dispatched; the reply is the nudge.
C32_ValidatorNudges ==
    IsValidator =>
      /\ ThirdRequestNudged
      /\ (/\ pc = "loop"
          /\ Len(messages) >= 2
          /\ messages[Len(messages)].role = "User"
          /\ ThirdRequestAt(Len(messages) - 1))
           => handler_calls = <<>>

ForcedSummaryMessage == Message("User", <<Text(ForcedSummaryText)>>)

\* The places of the forced-summary prompt in the history.
ForcedAt == {k \in 1..Len(messages) : messages[k] = ForcedSummaryMessage}

AssistantCount ==
    Cardinality({k \in 1..Len(messages) : messages[k].role = "Assistant"})

ParseableBlocks(content) ==
    {j \in 1..Len(content) :
        content[j].type = "Text" /\ TryParseFindings(content[j].text).some}

\* The Assistant messages of `msgs` holding a parseable Text block.
ParseableAssistants(msgs) ==
    {i \in 1..Len(msgs) :
        msgs[i].role = "Assistant" /\ ParseableBlocks(msgs[i].content) # {}}

MostRecentParse(msgs) ==
    IF ParseableAssistants(msgs) = {}
      THEN <<>>
      ELSE LET m == CHOOSE i \in ParseableAssistants(msgs) :
                       \A k \in ParseableAssistants(msgs) : k <= i
               j == CHOOSE b \in ParseableBlocks(msgs[m].content) :
                       \A k \in ParseableBlocks(msgs[m].content) : b <= k
           IN  TryParseFindings(msgs[m].content[j].text).val

RelatedEntries(verdicts, title) ==
    {k \in 1..Len(verdicts) :
        \/ Contains(ToLowercase(title), ToLowercase(verdicts[k].title))
        \/ Contains(ToLowercase(verdicts[k].title), ToLowercase(title))}

\* The verdict and reasoning the claim assigns to a finding's title.
ExpectedVerdict(verdicts, title) ==
    IF RelatedEntries(verdicts, title) = {}
      THEN [verdict |-> "Disputed",
            reasoning |-> "No verdict provided by validator"]
      ELSE LET k == CHOOSE e \in RelatedEntries(verdicts, title) :
                       \A o \in RelatedEntries(verdicts, title) : e <= o
           IN  [verdict |-> ParseVerdict(verdicts[k].verdict),
                reasoning |-> verdicts[k].reasoning]

C35_FirstMatchingVerdict ==
    LET verdicts == ExtractVerdicts(messages)
    IN  /\ (fn = "validate" /\ Returned /\ result.ok) =>
              /\ Len(result.val) = Len(findings_in)
              /\ \A i \in 1..Len(findings_in) :
                    /\ result.val[i].finding = findings_in[i]
                    /\ result.val[i].verdict =
                          ExpectedVerdict(verdicts, findings_in[i].title).verdict
                    /\ result.val[i].reasoning =
                          ExpectedVerdict(verdicts, findings_in[i].title).reasoning
        /\ (fn = "validate_findings" /\ Returned /\ result.ok) =>
              findings =
                DowngradeDisputed(RetainFindings(
                  [i \in 1..Len(findings_in) |->
                     [findings_in[i] EXCEPT
                        !.validation_status =
                           ExpectedVerdict(verdicts, findings_in[i].title).verdict,
                        !.validation_reasoning =
                           ExpectedVerdict(verdicts, findings_in[i].title).reasoning]]))

\* validate returned two findings: the first took the verdict of the first
\* of two related entries, whose title merely contains the finding's, and
\* the second, related to no entry, is Disputed by default.
C35_Witness ==
    /\ fn = "validate"
    /\ Returned
    /\ result.ok
    /\ Len(result.val) = 2
    /\ Cardinality(RelatedEntries(ExtractVerdicts(messages),
                                  findings_in[1].title)) = 2
    /\ result.val[1].reasoning = ExtractVerdicts(messages)[1].reasoning
    /\ ~Contains(ToLowercase(findings_in[1].title),
                 ToLowercase(ExtractVerdicts(messages)[1].title))
    /\ RelatedEntries(ExtractVerdicts(messages), findings_in[2].title) = {}
    /\ result.val[2].reasoning = "No verdict provided by validator"

(***************************************************************************)
(* C36: a regex match on the 0-based line i of a file of N lines yields a  *)
(* finding with line_number = i + 1, never 0, whose snippet consists of    *)
(* the lines [max(0, i - 3), min(i + 4, N)), that is three lines before,   *)
(* the matched line and three after, each with its 1-based line number.    *)
(***************************************************************************)
\* The lines [from, to) of `lines` (0-based), numbered from 1.
NumberedLines(lines, from, to) ==
    [k \in 1..(to - from) |->
       [number |-> from + k, text |-> lines[from + k].text]]

C36_SnippetThreeAround ==
    scan_pc = "regex_scanned" =>
      \A n \in 1..Len(scan_out) :
         LET f == scan_out[n]
             i == f.line_number - 1
         IN /\ f.line_number \in 1..Len(scan_in)
            /\ f.pattern_id \in scan_in[i + 1].hits
            /\ f.code_snippet =
                 NumberedLines(scan_in, IF i > 3 THEN i - 3 ELSE 0,
                               Min(i + 4, Len(scan_in)))

(***************************************************************************)
(* C37: no path returned by list_files lies inside a hidden directory or   *)
(* inside target/ below the listed directory: such directories are         *)
(* skipped together with their contents.                                   *)
(***************************************************************************)
\* The entry's components below the repository root, and how many of
\* them lead to the listed directory.
InsideSkippedDirectory(entry, listed_depth) ==
    LET comps == Components(entry)
    IN \E k \in (listed_depth + 1)..(Len(comps) - 1) :
          comps[k] # <<>> /\ SkippedName(comps[k])

C37_SkippedWithContents ==
    (tool_pc = "called" /\ tool_call.tool = "list_files"
       /\ tool_out.kind = "returned" /\ ~tool_out.is_error)
      => LET dir == SafeResolve(tool_call.repo_root, GivenPath).val
         IN \A k \in 1..Len(tool_out.entries) :
               ~InsideSkippedDirectory(tool_out.entries[k],
                                       Len(dir) - Len(RepoCanonical))

(***************************************************************************)
(* C39: every User message the investigator loop appends in reply to an    *)
(* Assistant message with tool uses holds exactly one ToolResult per       *)
(* ToolUse of that message, with the same ids in the same order, whether   *)
(* the results come from dispatch, from the malformed-input guard or from  *)
(* the stuck-loop nudge.                                                   *)
(***************************************************************************)
\* The places of the User messages the loop appended after tool uses (the
\* forced-summary prompt is appended after the loop).
ToolReplies ==
    {k \in 2..Len(messages) :
        /\ messages[k].role = "User"
        /\ messages[k] # ForcedSummaryMessage
        /\ messages[k - 1].role = "Assistant"
        /\ ToolUsesOf(messages[k - 1].content) # <<>>}

AnswersEachToolUse(reply, tool_uses) ==
    /\ Len(reply) = Len(tool_uses)
    /\ \A i \in 1..Len(reply) :
          /\ reply[i].type = "ToolResult"
          /\ reply[i].tool_use_id = tool_uses[i].id

C39_OneResultPerToolUse ==
    fn = "investigate" =>
      \A k \in ToolReplies :
         AnswersEachToolUse(messages[k].content,
                            ToolUsesOf(messages[k - 1].content))

\* One history with a reply made of a guard result and a dispatch result,
\* and a later reply made of the nudge.
C39_Witness ==
    /\ fn = "investigate"
    /\ \E k \in ToolReplies :
          /\ Len(messages[k].content) = 2
          /\ messages[k].content[1].content = InvalidInputText
          /\ messages[k].content[2].content # InvalidInputText
          /\ messages[k].content[2].content # NudgeText
    /\ \E k \in ToolReplies :
          \A i \in 1..Len(messages[k].content) :
             messages[k].content[i].content = NudgeText

(***************************************************************************)
(* C40: the message list passed to every converse call of investigate      *)
(* starts with a User message, ends with a User message and strictly       *)
(* alternates between User and Assistant, the forced-summary call after a  *)
(* stop on the turn or cost budget included.                               *)
(***************************************************************************)
Alternates(msgs) ==
    /\ msgs # <<>>
    /\ msgs[1].role = "User"
    /\ msgs[Len(msgs)].role = "User"
    /\ \A k \in 1..(Len(msgs) - 1) : msgs[k].role # msgs[k + 1].role

\* A converse call is in flight exactly in "await" and "await_summary", and
\* `messages` is the list it was given.
C40_AlternatingHistory ==
    (fn = "investigate" /\ pc \in {"await", "await_summary"})
      => Alternates(messages)

=============================================================================
